---- MODULE Spec2Model ----
(***************************************************************************)
(* Model of traefik-config-middleware: the aggregation engine              *)
(* (pkg/aggregator), the poll loop and the read handler (main).            *)
(*                                                                         *)
(* Go strings whose characters the code inspects or concatenates (names,   *)
(* keys, addresses, rules) are sequences of one-character strings, so that *)
(* prefixing, cutting and scanning are computed, not assumed.  Strings the *)
(* code only copies or compares (entry points, resolver names, opaque      *)
(* values) are TLA+ strings.  The backquote character, which a TLA+ string *)
(* cannot hold, is written BQ.                                             *)
(***************************************************************************)
EXTENDS Integers, Sequences, FiniteSets, TLC

\* ------------------------------------------------------------------ strings

\* the backquote character
BQ == "backquote"

\* strings.HasPrefix
HasPrefix(s, p) == Len(p) <= Len(s) /\ SubSeq(s, 1, Len(p)) = p

\* strings.TrimPrefix
TrimPrefix(s, p) == IF HasPrefix(s, p) THEN SubSeq(s, Len(p) + 1, Len(s)) ELSE s

\* strings.TrimSuffix
TrimSuffix(s, p) ==
    IF Len(p) <= Len(s) /\ SubSeq(s, Len(s) - Len(p) + 1, Len(s)) = p
    THEN SubSeq(s, 1, Len(s) - Len(p))
    ELSE s

\* strings.Index(s, c) for a one-character c: 0-based, -1 when absent
Index(s, c) ==
    IF \E i \in 1..Len(s) : s[i] = c
    THEN (CHOOSE i \in 1..Len(s) : s[i] = c /\ \A j \in 1..(i - 1) : s[j] # c) - 1
    ELSE -1

\* strings.Contains(s, c) for a one-character c
Contains(s, c) == \E i \in 1..Len(s) : s[i] = c

\* strings.ReplaceAll: left to right, non-overlapping
RECURSIVE ReplaceAll(_, _, _)
ReplaceAll(s, old, new) ==
    IF s = <<>> THEN <<>>
    ELSE IF HasPrefix(s, old)
         THEN new \o ReplaceAll(SubSeq(s, Len(old) + 1, Len(s)), old, new)
         ELSE <<s[1]>> \o ReplaceAll(Tail(s), old, new)

\* fmt.Sprintf("%s-%s", a, b)
Prefixed(a, b) == a \o <<"-">> \o b

\* ---------------------------------------------------------------- domain.go

\* the five literal prefixes, in the order the code tries them
wildcardPrefixes ==
    << <<"^","[","a","-","z","A","-","Z","0","-","9","-","]","+","\\",".">>,
       <<"^","[","a","-","z","A","-","Z","0","-","9","_","-","]","+","\\",".">>,
       <<"^","[","^",".","]","+","\\",".">>,
       <<"^",".","+","\\",".">>,
       <<"^",".","*","\\",".">> >>

\* ConvertRegexpToWildcard leaving the trailing "$" in place
ConvertRegexpToWildcardKeepDollar(pattern) ==
    IF \E n \in 1..Len(wildcardPrefixes) : HasPrefix(pattern, wildcardPrefixes[n])
    THEN LET n == CHOOSE m \in 1..Len(wildcardPrefixes) :
                      /\ HasPrefix(pattern, wildcardPrefixes[m])
                      /\ \A l \in 1..(m - 1) : ~HasPrefix(pattern, wildcardPrefixes[l])
             remainder == TrimPrefix(pattern, wildcardPrefixes[n])
         IN  <<"*", ".">> \o ReplaceAll(remainder, <<"\\", ".">>, <<".">>)
    ELSE <<>>

ConvertRegexpToWildcard(pattern) ==
    IF \E n \in 1..Len(wildcardPrefixes) : HasPrefix(pattern, wildcardPrefixes[n])
    THEN LET n == CHOOSE m \in 1..Len(wildcardPrefixes) :
                      /\ HasPrefix(pattern, wildcardPrefixes[m])
                      /\ \A l \in 1..(m - 1) : ~HasPrefix(pattern, wildcardPrefixes[l])
             remainder == TrimSuffix(TrimPrefix(pattern, wildcardPrefixes[n]), <<"$">>)
         IN  <<"*", ".">> \o ReplaceAll(remainder, <<"\\", ".">>, <<".">>)
    ELSE <<>>

\* the literal head of the two matcher patterns, up to the opening backtick
hostRegex == <<"H","o","s","t","(",BQ>>
hostRegexpRegex == <<"H","o","s","t","R","e","g","e","x","p","(",BQ>>

\* One attempt of  head([^BQ]+)BQ\)  at 1-based position i of rule: the position
\* of the closing parenthesis, or 0 when the pattern does not match there.
MatchAt(rule, head, i) ==
    LET from == i + Len(head)
        ticks == {j \in from..Len(rule) : rule[j] = BQ}
    IN  IF i + Len(head) - 1 <= Len(rule)
           /\ SubSeq(rule, i, i + Len(head) - 1) = head
           /\ ticks # {}
        THEN LET j == CHOOSE k \in ticks : \A l \in ticks : k <= l
             IN  IF j > from /\ j + 1 <= Len(rule) /\ rule[j + 1] = ")"
                 THEN j + 1
                 ELSE 0
        ELSE 0

\* regexp.FindAllStringSubmatch(rule, -1), keeping capture group 1 of each
\* match: leftmost matches, each search resuming after the previous match.
RECURSIVE FindAllSubmatch(_, _, _)
FindAllSubmatch(rule, head, i) ==
    IF i > Len(rule) THEN <<>>
    ELSE LET e == MatchAt(rule, head, i)
         IN  IF e = 0
             THEN FindAllSubmatch(rule, head, i + 1)
             ELSE <<SubSeq(rule, i + Len(head), e - 2)>>
                  \o FindAllSubmatch(rule, head, e + 1)

RECURSIVE ConvertAll(_)
ConvertAll(patterns) ==
    IF patterns = <<>> THEN <<>>
    ELSE LET domain == ConvertRegexpToWildcard(Head(patterns))
         IN  (IF domain # <<>> THEN <<domain>> ELSE <<>>) \o ConvertAll(Tail(patterns))

\* ExtractDomainsFromRule converting the regex-host matchers whatever the flag
ExtractDomainsFromRuleAlwaysFix(rule, wildcardFix) ==
    FindAllSubmatch(rule, hostRegex, 1)
    \o ConvertAll(FindAllSubmatch(rule, hostRegexpRegex, 1))

ExtractDomainsFromRule(rule, wildcardFix) ==
    FindAllSubmatch(rule, hostRegex, 1)
    \o (IF wildcardFix THEN ConvertAll(FindAllSubmatch(rule, hostRegexpRegex, 1))
        ELSE <<>>)

\* ------------------------------------------------------------------- tls.go

\* a map[string]interface{} is a function on its key set; nil and the empty
\* map are both the empty function (the code only tests len and ranges).
NilMap == <<>>

\* an absent *TLSConfig
NilTLS == [nonNil |-> FALSE, CertResolver |-> "", StripResolver |-> FALSE]

\* BuildTLSConfig copying the domains key with the other fetched options
BuildTLSConfigKeepDomains(ds, rule, existingTLS) ==
    LET preserved == existingTLS
        withResolver ==
            IF ds.TLS.nonNil /\ ds.TLS.CertResolver # ""
            THEN ("certResolver" :> ds.TLS.CertResolver) @@ preserved
            ELSE preserved
        domains == ExtractDomainsFromRule(rule, ds.WildcardFix)
    IN  IF Len(domains) > 0
        THEN ("domains" :> << [Main |-> domains[1], Sans |-> Tail(domains)] >>)
             @@ withResolver
        ELSE withResolver

\* BuildTLSConfig setting the policy's resolver only where the fetched
\* options name none
BuildTLSConfigExistingWins(ds, rule, existingTLS) ==
    LET preserved == [k \in (DOMAIN existingTLS) \ {"domains"} |-> existingTLS[k]]
        withResolver ==
            IF ds.TLS.nonNil /\ ds.TLS.CertResolver # ""
            THEN preserved @@ ("certResolver" :> ds.TLS.CertResolver)
            ELSE preserved
        domains == ExtractDomainsFromRule(rule, ds.WildcardFix)
    IN  IF Len(domains) > 0
        THEN ("domains" :> << [Main |-> domains[1], Sans |-> Tail(domains)] >>)
             @@ withResolver
        ELSE withResolver

BuildTLSConfig(ds, rule, existingTLS) ==
    LET preserved == [k \in (DOMAIN existingTLS) \ {"domains"} |-> existingTLS[k]]
        withResolver ==
            IF ds.TLS.nonNil /\ ds.TLS.CertResolver # ""
            THEN ("certResolver" :> ds.TLS.CertResolver) @@ preserved
            ELSE preserved
        domains == ExtractDomainsFromRule(rule, ds.WildcardFix)
    IN  IF Len(domains) > 0
        THEN ("domains" :> << [Main |-> domains[1], Sans |-> Tail(domains)] >>)
             @@ withResolver
        ELSE withResolver

\* --------------------------------------------------------------- backend url

httpScheme == <<"h","t","t","p",":","/","/">>
httpsScheme == <<"h","t","t","p","s",":","/","/">>

\* GetBackendURL appending the default port whatever the address holds
GetBackendURLAlwaysPort(ds, useTLS) ==
    LET protocol == IF useTLS THEN httpsScheme ELSE httpScheme
        defaultPort == IF useTLS THEN <<":","4","4","3">> ELSE <<":","8","0">>
        trimmed == TrimPrefix(TrimPrefix(ds.APIURL, httpScheme), httpsScheme)
        idx == Index(trimmed, "/")
        hostPort == IF idx # -1 THEN SubSeq(trimmed, 1, idx) ELSE trimmed
    IN  IF ds.BackendOverride # <<>>
        THEN IF HasPrefix(ds.BackendOverride, httpScheme)
                \/ HasPrefix(ds.BackendOverride, httpsScheme)
             THEN ds.BackendOverride
             ELSE protocol \o ds.BackendOverride
        ELSE protocol \o hostPort \o defaultPort

\* GetBackendURL putting the protocol before every override
GetBackendURLOverrideProtocol(ds, useTLS) ==
    LET protocol == IF useTLS THEN httpsScheme ELSE httpScheme
        defaultPort == IF useTLS THEN <<":","4","4","3">> ELSE <<":","8","0">>
        trimmed == TrimPrefix(TrimPrefix(ds.APIURL, httpScheme), httpsScheme)
        idx == Index(trimmed, "/")
        hostPort == IF idx # -1 THEN SubSeq(trimmed, 1, idx) ELSE trimmed
    IN  IF ds.BackendOverride # <<>>
        THEN protocol \o TrimPrefix(TrimPrefix(ds.BackendOverride, httpScheme), httpsScheme)
        ELSE IF ~Contains(hostPort, ":")
             THEN protocol \o hostPort \o defaultPort
             ELSE protocol \o hostPort

GetBackendURL(ds, useTLS) ==
    LET protocol == IF useTLS THEN httpsScheme ELSE httpScheme
        defaultPort == IF useTLS THEN <<":","4","4","3">> ELSE <<":","8","0">>
        trimmed == TrimPrefix(TrimPrefix(ds.APIURL, httpScheme), httpsScheme)
        idx == Index(trimmed, "/")
        hostPort == IF idx # -1 THEN SubSeq(trimmed, 1, idx) ELSE trimmed
    IN  IF ds.BackendOverride # <<>>
        THEN IF HasPrefix(ds.BackendOverride, httpScheme)
                \/ HasPrefix(ds.BackendOverride, httpsScheme)
             THEN ds.BackendOverride
             ELSE protocol \o ds.BackendOverride
        ELSE IF ~Contains(hostPort, ":")
             THEN protocol \o hostPort \o defaultPort
             ELSE protocol \o hostPort

\* ------------------------------------------------------------ entry points

\* the inner loop (lines 12-16): routerEP against each ignoreEP in turn
RECURSIVE IgnoreListHas(_, _)
IgnoreListHas(routerEP, ignoreEntryPoints) ==
    IF ignoreEntryPoints = <<>> THEN FALSE
    ELSE IF routerEP = Head(ignoreEntryPoints) THEN TRUE
    ELSE IgnoreListHas(routerEP, Tail(ignoreEntryPoints))

\* the outer loop (lines 11-17): each of the router's entry points in turn
RECURSIVE AnyEntryPointIgnored(_, _)
AnyEntryPointIgnored(entryPoints, ignoreEntryPoints) ==
    IF entryPoints = <<>> THEN FALSE
    ELSE IF IgnoreListHas(Head(entryPoints), ignoreEntryPoints) THEN TRUE
    ELSE AnyEntryPointIgnored(Tail(entryPoints), ignoreEntryPoints)

\* ShouldIgnoreRouter looking at the router's first entry point only
ShouldIgnoreRouterFirstOnly(router, ignoreEntryPoints) ==
    IF Len(ignoreEntryPoints) = 0 THEN FALSE
    ELSE /\ router.EntryPoints # <<>>
         /\ IgnoreListHas(Head(router.EntryPoints), ignoreEntryPoints)

ShouldIgnoreRouter(router, ignoreEntryPoints) ==
    IF Len(ignoreEntryPoints) = 0 THEN FALSE
    ELSE AnyEntryPointIgnored(router.EntryPoints, ignoreEntryPoints)

\* -------------------------------------------------------------------- api.go

StatusOK == 200

\* url.JoinPath / http.NewRequest reject an address that does not parse; of
\* net/url's rules the model keeps the one its addresses exercise: a first
\* path segment that begins with a colon has no scheme.
URLParses(u) == ~(Len(u) > 0 /\ u[1] = ":")

\* HTTPProxyConfig with its three maps made (aggregator.go, lines 38-41); the
\* zero value of the struct, with nil maps, has the same (empty) content.
EmptyConfig == [Routers |-> <<>>, Services |-> <<>>, Middlewares |-> <<>>]

\* the (nil, err) return of both fetch functions
FetchError == [err |-> TRUE, routers |-> <<>>, config |-> EmptyConfig]

\* FetchDownstreamRouters without its status check
FetchDownstreamRoutersAnyStatus(ds, resp) ==
    IF ~URLParses(ds.APIURL) THEN FetchError
    ELSE IF resp.transport = "error" THEN FetchError
    ELSE IF resp.body.shape # "routers" THEN FetchError
    ELSE [err |-> FALSE, routers |-> resp.body.routers, config |-> EmptyConfig]

\* resp is what the HTTP client gets for the request: transport "error" is
\* client.Do failing; otherwise a status and a body, whose shape says what the
\* JSON decodes as ("routers": an array of router records, "config": a
\* configuration document, anything else decodes as neither).
FetchDownstreamRouters(ds, resp) ==
    IF ~URLParses(ds.APIURL) THEN FetchError
    ELSE IF resp.transport = "error" THEN FetchError
    ELSE IF resp.status # StatusOK THEN FetchError
    ELSE IF resp.body.shape # "routers" THEN FetchError
    ELSE [err |-> FALSE, routers |-> resp.body.routers, config |-> EmptyConfig]

FetchPassthroughConfig(ds, resp) ==
    IF ~URLParses(ds.APIURL) THEN FetchError
    ELSE IF resp.transport = "error" THEN FetchError
    ELSE IF resp.status # StatusOK THEN FetchError
    ELSE IF resp.body.shape # "config" THEN FetchError
    ELSE [err |-> FALSE, routers |-> <<>>, config |-> resp.body.config]

\* ------------------------------------------------------------- aggregator.go

\* a map write that leaves a key already present alone
MapPutIfAbsent(m, k, v) == m @@ (k :> v)

\* m[k] = v on a Go map
MapPut(m, k, v) == (k :> v) @@ m

servicePrefix == <<"s","e","r","v","i","c","e">>

\* the router name without its provider suffix
RouterBaseName(name) ==
    LET idx == Index(name, "@")
    IN  IF idx # -1 THEN SubSeq(name, 1, idx) ELSE name

\* the route name without the source's prefix
HTTPRouterNameBare(ds, routerBaseName) == routerBaseName

HTTPRouterName(ds, routerBaseName) == Prefixed(ds.Name, routerBaseName)

\* the backend-group name without its "service-" head
HTTPServiceNameBare(ds, routerBaseName) == Prefixed(ds.Name, routerBaseName)

HTTPServiceName(ds, routerBaseName) ==
    Prefixed(servicePrefix, Prefixed(ds.Name, routerBaseName))

\* AddRouter taking a TLS policy of the source as a reason to use https
AddRouterPolicyTLS(doc, ds, router) ==
    IF ShouldIgnoreRouter(router, ds.IgnoreEntryPoints) THEN doc
    ELSE
    LET useTLS == ds.TLS.nonNil \/ DOMAIN router.TLS # {}
        backendURL == GetBackendURL(ds, useTLS)
        routerBaseName == RouterBaseName(router.Name)
        httpRouterName == HTTPRouterName(ds, routerBaseName)
        httpServiceName == HTTPServiceName(ds, routerBaseName)
        entryPoints == IF Len(ds.EntryPoints) > 0 THEN ds.EntryPoints
                       ELSE router.EntryPoints
        tlsConfig == IF ds.TLS.nonNil \/ useTLS
                     THEN BuildTLSConfig(ds, router.Rule, router.TLS)
                     ELSE NilMap
        httpRouter == [Rule |-> router.Rule,
                       Service |-> httpServiceName,
                       EntryPoints |-> entryPoints,
                       Middlewares |-> ds.Middlewares,
                       TLS |-> IF DOMAIN tlsConfig # {} THEN tlsConfig ELSE NilMap]
        httpService == [Servers |-> << [URL |-> backendURL] >>,
                        ServersTransport |-> ds.ServerTransport]
    IN  [doc EXCEPT !.Routers = MapPut(@, httpRouterName, httpRouter),
                    !.Services = MapPut(@, httpServiceName, httpService)]

\* AddRouter building the TLS block for every route
AddRouterAlwaysTLS(doc, ds, router) ==
    IF ShouldIgnoreRouter(router, ds.IgnoreEntryPoints) THEN doc
    ELSE
    LET useTLS == DOMAIN router.TLS # {}
        backendURL == GetBackendURL(ds, useTLS)
        routerBaseName == RouterBaseName(router.Name)
        httpRouterName == HTTPRouterName(ds, routerBaseName)
        httpServiceName == HTTPServiceName(ds, routerBaseName)
        entryPoints == IF Len(ds.EntryPoints) > 0 THEN ds.EntryPoints
                       ELSE router.EntryPoints
        tlsConfig == BuildTLSConfig(ds, router.Rule, router.TLS)
        httpRouter == [Rule |-> router.Rule,
                       Service |-> httpServiceName,
                       EntryPoints |-> entryPoints,
                       Middlewares |-> ds.Middlewares,
                       TLS |-> IF DOMAIN tlsConfig # {} THEN tlsConfig ELSE NilMap]
        httpService == [Servers |-> << [URL |-> backendURL] >>,
                        ServersTransport |-> ds.ServerTransport]
    IN  [doc EXCEPT !.Routers = MapPut(@, httpRouterName, httpRouter),
                    !.Services = MapPut(@, httpServiceName, httpService)]

\* AddRouter keeping the fetched entry points whatever the override
AddRouterOwnEntryPoints(doc, ds, router) ==
    IF ShouldIgnoreRouter(router, ds.IgnoreEntryPoints) THEN doc
    ELSE
    LET useTLS == DOMAIN router.TLS # {}
        backendURL == GetBackendURL(ds, useTLS)
        routerBaseName == RouterBaseName(router.Name)
        httpRouterName == HTTPRouterName(ds, routerBaseName)
        httpServiceName == HTTPServiceName(ds, routerBaseName)
        entryPoints == router.EntryPoints
        tlsConfig == IF ds.TLS.nonNil \/ useTLS
                     THEN BuildTLSConfig(ds, router.Rule, router.TLS)
                     ELSE NilMap
        httpRouter == [Rule |-> router.Rule,
                       Service |-> httpServiceName,
                       EntryPoints |-> entryPoints,
                       Middlewares |-> ds.Middlewares,
                       TLS |-> IF DOMAIN tlsConfig # {} THEN tlsConfig ELSE NilMap]
        httpService == [Servers |-> << [URL |-> backendURL] >>,
                        ServersTransport |-> ds.ServerTransport]
    IN  [doc EXCEPT !.Routers = MapPut(@, httpRouterName, httpRouter),
                    !.Services = MapPut(@, httpServiceName, httpService)]

\* AddRouter leaving the transport reference out
AddRouterNoTransport(doc, ds, router) ==
    IF ShouldIgnoreRouter(router, ds.IgnoreEntryPoints) THEN doc
    ELSE
    LET useTLS == DOMAIN router.TLS # {}
        backendURL == GetBackendURL(ds, useTLS)
        routerBaseName == RouterBaseName(router.Name)
        httpRouterName == HTTPRouterName(ds, routerBaseName)
        httpServiceName == HTTPServiceName(ds, routerBaseName)
        entryPoints == IF Len(ds.EntryPoints) > 0 THEN ds.EntryPoints
                       ELSE router.EntryPoints
        tlsConfig == IF ds.TLS.nonNil \/ useTLS
                     THEN BuildTLSConfig(ds, router.Rule, router.TLS)
                     ELSE NilMap
        httpRouter == [Rule |-> router.Rule,
                       Service |-> httpServiceName,
                       EntryPoints |-> entryPoints,
                       Middlewares |-> ds.Middlewares,
                       TLS |-> IF DOMAIN tlsConfig # {} THEN tlsConfig ELSE NilMap]
        httpService == [Servers |-> << [URL |-> backendURL] >>,
                        ServersTransport |-> ""]
    IN  [doc EXCEPT !.Routers = MapPut(@, httpRouterName, httpRouter),
                    !.Services = MapPut(@, httpServiceName, httpService)]

\* the body of the loop over the fetched routers of a normal-mode source
AddRouter(doc, ds, router) ==
    IF ShouldIgnoreRouter(router, ds.IgnoreEntryPoints) THEN doc
    ELSE
    LET useTLS == DOMAIN router.TLS # {}
        backendURL == GetBackendURL(ds, useTLS)
        routerBaseName == RouterBaseName(router.Name)
        httpRouterName == HTTPRouterName(ds, routerBaseName)
        httpServiceName == HTTPServiceName(ds, routerBaseName)
        entryPoints == IF Len(ds.EntryPoints) > 0 THEN ds.EntryPoints
                       ELSE router.EntryPoints
        tlsConfig == IF ds.TLS.nonNil \/ useTLS
                     THEN BuildTLSConfig(ds, router.Rule, router.TLS)
                     ELSE NilMap
        httpRouter == [Rule |-> router.Rule,
                       Service |-> httpServiceName,
                       EntryPoints |-> entryPoints,
                       Middlewares |-> ds.Middlewares,
                       TLS |-> IF DOMAIN tlsConfig # {} THEN tlsConfig ELSE NilMap]
        httpService == [Servers |-> << [URL |-> backendURL] >>,
                        ServersTransport |-> ds.ServerTransport]
    IN  [doc EXCEPT !.Routers = MapPut(@, httpRouterName, httpRouter),
                    !.Services = MapPut(@, httpServiceName, httpService)]

\* for _, router := range routers
RECURSIVE AddRouters(_, _, _)
AddRouters(doc, ds, routers) ==
    IF routers = <<>> THEN doc
    ELSE AddRouters(AddRouter(doc, ds, Head(routers)), ds, Tail(routers))

\* PrefixRouter leaving the backend-group reference as fetched
PrefixRouterKeepService(ds, router) ==
    [router EXCEPT
        !.Middlewares = IF Len(@) > 0
                        THEN [i \in 1..Len(@) |-> Prefixed(ds.Name, @[i])]
                        ELSE @]

\* PrefixRouter leaving the middleware references as fetched
PrefixRouterKeepMiddlewares(ds, router) ==
    [router EXCEPT !.Service = Prefixed(ds.Name, @)]

\* a passthrough router with its references prefixed (lines 61-71)
PrefixRouter(ds, router) ==
    [router EXCEPT
        !.Service = Prefixed(ds.Name, @),
        !.Middlewares = IF Len(@) > 0
                        THEN [i \in 1..Len(@) |-> Prefixed(ds.Name, @[i])]
                        ELSE @]

\* the orders in which a range over a Go map may visit its keys
KeyOrders(m) ==
    {o \in [1..Cardinality(DOMAIN m) -> DOMAIN m] :
        \A i, j \in 1..Cardinality(DOMAIN m) : o[i] = o[j] => i = j}

RECURSIVE MergeMiddlewares(_, _, _, _)
MergeMiddlewares(doc, ds, from, order) ==
    IF order = <<>> THEN doc
    ELSE MergeMiddlewares(
            [doc EXCEPT !.Middlewares =
                MapPut(@, Prefixed(ds.Name, Head(order)), from[Head(order)])],
            ds, from, Tail(order))

\* MergeRouters skipping the routers ShouldIgnoreRouter rejects
RECURSIVE MergeRoutersFiltered(_, _, _, _)
MergeRoutersFiltered(doc, ds, from, order) ==
    IF order = <<>> THEN doc
    ELSE MergeRoutersFiltered(
            IF ShouldIgnoreRouter(from[Head(order)], ds.IgnoreEntryPoints) THEN doc
            ELSE [doc EXCEPT !.Routers =
                    MapPut(@, Prefixed(ds.Name, Head(order)),
                           PrefixRouter(ds, from[Head(order)]))],
            ds, from, Tail(order))

RECURSIVE MergeRouters(_, _, _, _)
MergeRouters(doc, ds, from, order) ==
    IF order = <<>> THEN doc
    ELSE MergeRouters(
            [doc EXCEPT !.Routers =
                MapPut(@, Prefixed(ds.Name, Head(order)),
                       PrefixRouter(ds, from[Head(order)]))],
            ds, from, Tail(order))

\* MergeServices writing each backend group under its fetched key
RECURSIVE MergeServicesUnprefixed(_, _, _, _)
MergeServicesUnprefixed(doc, ds, from, order) ==
    IF order = <<>> THEN doc
    ELSE MergeServicesUnprefixed(
            [doc EXCEPT !.Services = MapPut(@, Head(order), from[Head(order)])],
            ds, from, Tail(order))

\* MergeServices writing every backend group under the source's name
RECURSIVE MergeServicesOneKey(_, _, _, _)
MergeServicesOneKey(doc, ds, from, order) ==
    IF order = <<>> THEN doc
    ELSE MergeServicesOneKey(
            [doc EXCEPT !.Services = MapPut(@, ds.Name, from[Head(order)])],
            ds, from, Tail(order))

RECURSIVE MergeServices(_, _, _, _)
MergeServices(doc, ds, from, order) ==
    IF order = <<>> THEN doc
    ELSE MergeServices(
            [doc EXCEPT !.Services =
                MapPut(@, Prefixed(ds.Name, Head(order)), from[Head(order)])],
            ds, from, Tail(order))

\* the passthrough branch after a successful fetch (lines 52-80); mo, ro and
\* so are the orders in which the three ranges visit the fetched maps
MergePassthrough(doc, ds, passthroughConfig, mo, ro, so) ==
    MergeServices(
        MergeRouters(
            MergeMiddlewares(doc, ds, passthroughConfig.Middlewares, mo),
            ds, passthroughConfig.Routers, ro),
        ds, passthroughConfig.Services, so)

\* ------------------------------------------------------------- model values

\* source names
nameA == <<"a">>
nameAB == <<"a","-","b">>
nameT == <<"t">>
nameC == <<"c">>

\* addresses
urlH == httpScheme \o <<"h">>
urlP == httpsScheme \o <<"p",":","8","4","4","3","/","c","f","g">>
urlBad == <<":","h">>
urlS == httpScheme \o <<"s">>
urlQ == httpScheme \o <<"q",":","9">>

\* rules: Host(BQ x.y BQ), HostRegexp(BQ ^.+\.z$ BQ) || Host(BQ w BQ), Path(BQ / BQ)
ruleHost == hostRegex \o <<"x",".","y",BQ,")">>
ruleMixed ==
    hostRegexpRegex \o <<"^",".","+","\\",".","z","$",BQ,")"," ","|","|"," ">>
    \o hostRegex \o <<"w",BQ,")">>
\* Host(BQ x.y BQ) && (HostRegexp(BQ ^.+\.z$ BQ) || Host(BQ w BQ))
ruleBoth == ruleHost \o <<" ","&","&"," ","(">> \o ruleMixed \o <<")">>
rulePath == <<"P","a","t","h","(",BQ,"/",BQ,")">>

\* router records as the downstream API lists them
rWeb == [Name |-> <<"r","@","k">>, EntryPoints |-> <<"web">>,
         Service |-> <<"u","p","@","k">>, Rule |-> ruleHost, TLS |-> NilMap]
rTLS == [Name |-> <<"b","-","r">>, EntryPoints |-> <<"websecure">>,
         Service |-> <<"u","p">>, Rule |-> ruleMixed,
         TLS |-> [options |-> "default", certResolver |-> "old"]]
rDup == [Name |-> <<"r","@","d">>, EntryPoints |-> <<"web","websecure">>,
         Service |-> <<"u","p">>, Rule |-> rulePath,
         TLS |-> [domains |-> << [Main |-> <<"o">>, Sans |-> <<>>] >>]]
rAdm == [Name |-> <<"@","k">>, EntryPoints |-> <<"traefik">>,
         Service |-> <<"a","p","i","@","i">>, Rule |-> rulePath, TLS |-> NilMap]

routersOne == <<rWeb>>
routersTwo == <<rWeb, rTLS>>
routersDup == <<rWeb, rDup, rAdm>>

\* configuration documents a passthrough downstream serves
svcU == [Servers |-> << [URL |-> httpScheme \o <<"u",":","1">>] >>,
         ServersTransport |-> "t1"]
svcV == [Servers |-> << [URL |-> httpsScheme \o <<"v">>], [URL |-> httpsScheme \o <<"w">>] >>,
         ServersTransport |-> ""]

docFull ==
    [Routers |-> (<<"r">> :>
                    [Rule |-> ruleHost, Service |-> <<"s">>, EntryPoints |-> <<"web">>,
                     Middlewares |-> << <<"m">> >>, TLS |-> [certResolver |-> "le"]]),
     Services |-> (<<"s">> :> svcU) @@ (<<"a","-","r">> :> svcV),
     Middlewares |-> (<<"m">> :> "basicAuth")]

\* a document whose routers name a backend group and a middleware it does not hold
docDangling ==
    [Routers |-> (<<"r">> :>
                    [Rule |-> rulePath, Service |-> <<"a","p","i","@","i">>,
                     EntryPoints |-> <<"traefik">>,
                     Middlewares |-> << <<"m">>, <<"g","@","f">> >>, TLS |-> NilMap])
                 @@ (<<"x">> :>
                    [Rule |-> ruleHost, Service |-> <<"s">>, EntryPoints |-> <<"web">>,
                     Middlewares |-> <<>>, TLS |-> NilMap]),
     Services |-> (<<"s">> :> svcU),
     Middlewares |-> (<<"m">> :> "basicAuth") @@ (<<"n">> :> "compress")]

\* responses
garbageBody == [shape |-> "garbage", routers |-> <<>>, config |-> EmptyConfig]
RoutersBody(l) == [shape |-> "routers", routers |-> l, config |-> EmptyConfig]
ConfigBody(d) == [shape |-> "config", routers |-> <<>>, config |-> d]
transportError == [transport |-> "error", status |-> 0, body |-> garbageBody]
Response(status, body) == [transport |-> "ok", status |-> status, body |-> body]

\* what the server at an address may answer to one request
ServerResponses(url) ==
    IF url = urlH THEN
        {transportError, Response(404, garbageBody), Response(201, RoutersBody(routersTwo)),
         Response(200, garbageBody), Response(200, ConfigBody(docFull)),
         Response(200, RoutersBody(routersTwo)), Response(200, RoutersBody(routersDup))}
    ELSE IF url = urlP THEN
        {transportError, Response(500, garbageBody), Response(204, ConfigBody(docFull)),
         Response(200, garbageBody), Response(200, RoutersBody(routersTwo)),
         Response(200, ConfigBody(docFull)), Response(200, ConfigBody(docDangling))}
    ELSE IF url = urlS THEN
        {transportError, Response(200, RoutersBody(routersOne))}
    ELSE IF url = urlQ THEN
        {Response(500, garbageBody), Response(200, ConfigBody(docFull))}
    ELSE {transportError}

\* source descriptors
Source(name, url, passthrough) ==
    [Name |-> name, APIURL |-> url, BackendOverride |-> <<>>, TLS |-> NilTLS,
     EntryPoints |-> <<>>, Middlewares |-> <<>>, IgnoreEntryPoints |-> <<>>,
     WildcardFix |-> FALSE, Passthrough |-> passthrough, ServerTransport |-> ""]

srcA == Source(nameA, urlH, FALSE)
srcT == [Source(nameT, urlH, FALSE) EXCEPT
            !.BackendOverride = <<"b",":","9">>,
            !.TLS = [nonNil |-> TRUE, CertResolver |-> "le", StripResolver |-> FALSE],
            !.EntryPoints = <<"websecure">>,
            !.Middlewares = << <<"a","u","t","h","@","f">> >>,
            !.IgnoreEntryPoints = <<"traefik">>,
            !.WildcardFix = TRUE,
            !.ServerTransport = "insecure"]
srcAB == Source(nameAB, urlP, TRUE)
srcService == Source(servicePrefix, urlP, TRUE)
srcPA == [Source(nameA, urlP, TRUE) EXCEPT !.IgnoreEntryPoints = <<"web">>]
srcBad == Source(nameC, urlBad, FALSE)
srcS == Source(nameA, urlS, FALSE)
srcQ == Source(nameT, urlQ, TRUE)

\* the sources of the configurations of SpecAgg, and the longest source list
AggSources == {srcA, srcT, srcAB, srcService, srcPA, srcBad}
MaxSources == 2

\* the most cycles started in one behaviour, ticks delivered, reads served
MaxCycles == 2
MaxTicks == 2
MaxReads == 2

\* the longest list of entry points given to ShouldIgnoreRouter
MaxEntryPoints == 2

\* the most matchers in a rule given to ExtractDomainsFromRule
MaxMatchers == 3

Callers == {"w1", "w2"}
Readers == {"g1"}

\* ---------------------------------------------------------------- the state

VARIABLES
    config,        \* a.config.Downstream
    heap,          \* the HTTPProxyConfig values made so far: 0 is the zero value,
                   \* c > 0 the newConfig of cycle c (its maps are shared by reference)
    cachedConfig,  \* a.cachedConfig, as the heap index of the value it holds
    configMutex,   \* a.configMutex: the writer holding it (0: none) and the readers
    cyc,           \* the calls of AggregateConfigs so far, each with its position
    budget,        \* how many more calls of AggregateConfigs may start
    poll,          \* the pollLoop goroutine
    ticker,        \* the time.Ticker of pollLoop: running, and its one-slot channel
    ticks,         \* ticks produced so far
    caller,        \* goroutines that call AggregateConfigs directly
    reader,        \* goroutines serving getTraefikConfig
    reads,         \* reads started so far
    fnIn, fnOut    \* input and result of a function checked on its own

vars == <<config, heap, cachedConfig, configMutex, cyc, budget, poll, ticker, ticks,
          caller, reader, reads, fnIn, fnOut>>

Cycles == 1..Len(cyc)

\* no function is being checked on its own
NoFunction == fnIn = <<>> /\ fnOut = [done |-> FALSE]

\* NewAggregator, with no goroutine started yet
InitAggregator ==
    /\ heap = (0 :> EmptyConfig)
    /\ cachedConfig = 0
    /\ configMutex = [writer |-> 0, readers |-> {}]
    /\ cyc = <<>>
    /\ ticker = [on |-> FALSE, c |-> 0]
    /\ ticks = 0
    /\ caller = [w \in Callers |-> [pc |-> "idle", call |-> 0]]
    /\ reader = [g \in Readers |->
                    [pc |-> "idle", ref |-> 0, seenRef |-> 0, seen |-> EmptyConfig]]
    /\ reads = 0

\* ------------------------------------------------------- AggregateConfigs

\* StartCycle that empties the maps of the current document to fill them
\* again, instead of making new ones
StartCycleReuse(driver, cause) ==
    /\ budget > 0
    /\ budget' = budget - 1
    /\ cyc' = Append(cyc, [driver |-> driver, cause |-> cause, pc |-> "loop",
                           i |-> 1, fetched |-> <<>>])
    /\ heap' = (Len(cyc) + 1 :> EmptyConfig) @@ [heap EXCEPT ![cachedConfig] = EmptyConfig]

\* StartCycle filling newConfig with the entries of the current document
StartCycleFromCurrent(driver, cause) ==
    /\ budget > 0
    /\ budget' = budget - 1
    /\ cyc' = Append(cyc, [driver |-> driver, cause |-> cause, pc |-> "loop",
                           i |-> 1, fetched |-> <<>>])
    /\ heap' = (Len(cyc) + 1 :> heap[cachedConfig]) @@ heap

\* entry of AggregateConfigs: newConfig and its three maps are made
StartCycle(driver, cause) ==
    /\ budget > 0
    /\ budget' = budget - 1
    /\ cyc' = Append(cyc, [driver |-> driver, cause |-> cause, pc |-> "loop",
                           i |-> 1, fetched |-> <<>>])
    /\ heap' = (Len(cyc) + 1 :> EmptyConfig) @@ heap

\* a call that does not wait for the cycle: go agg.AggregateConfigs()
AggregateReturnedAtOnce(c) == TRUE

\* the call has returned to its caller
AggregateReturned(c) == cyc[c].pc = "done"

\* the next source's request goes out
Fetch(c) ==
    /\ cyc[c].pc = "loop"
    /\ cyc[c].i <= Len(config)
    /\ cyc' = [cyc EXCEPT ![c].pc = "fetching"]
    /\ UNCHANGED <<config, heap, cachedConfig, configMutex, budget, poll, ticker, ticks,
                   caller, reader, reads, fnIn, fnOut>>

\* RoutersFetched leaving the loop on an error instead of going on
RoutersFetchedAbort(c) ==
    /\ cyc[c].pc = "fetching"
    /\ ~config[cyc[c].i].Passthrough
    /\ \E resp \in ServerResponses(config[cyc[c].i].APIURL) :
         LET ds == config[cyc[c].i]
             res == FetchDownstreamRouters(ds, resp)
         IN  /\ cyc' = [cyc EXCEPT ![c].pc = "loop",
                                   ![c].i = IF res.err THEN Len(config) + 1 ELSE @ + 1,
                                   ![c].fetched = Append(@, res)]
             /\ heap' = [heap EXCEPT ![c] =
                            IF res.err THEN @ ELSE AddRouters(@, ds, res.routers)]
    /\ UNCHANGED <<config, cachedConfig, configMutex, budget, poll, ticker, ticks,
                   caller, reader, reads, fnIn, fnOut>>

\* RoutersFetched asking the same source again after an error
RoutersFetchedRetry(c) ==
    /\ cyc[c].pc = "fetching"
    /\ ~config[cyc[c].i].Passthrough
    /\ \E resp \in ServerResponses(config[cyc[c].i].APIURL) :
         LET ds == config[cyc[c].i]
             res == FetchDownstreamRouters(ds, resp)
         IN  /\ cyc' = [cyc EXCEPT ![c].pc = "loop",
                                   ![c].i = IF res.err THEN @ ELSE @ + 1,
                                   ![c].fetched = IF res.err THEN @ ELSE Append(@, res)]
             /\ heap' = [heap EXCEPT ![c] =
                            IF res.err THEN @ ELSE AddRouters(@, ds, res.routers)]
    /\ UNCHANGED <<config, cachedConfig, configMutex, budget, poll, ticker, ticks,
                   caller, reader, reads, fnIn, fnOut>>

\* FetchDownstreamRouters returns: on an error the source is skipped,
\* otherwise its routers are transformed into newConfig
RoutersFetched(c) ==
    /\ cyc[c].pc = "fetching"
    /\ ~config[cyc[c].i].Passthrough
    /\ \E resp \in ServerResponses(config[cyc[c].i].APIURL) :
         LET ds == config[cyc[c].i]
             res == FetchDownstreamRouters(ds, resp)
         IN  /\ cyc' = [cyc EXCEPT ![c].pc = "loop", ![c].i = @ + 1,
                                   ![c].fetched = Append(@, res)]
             /\ heap' = [heap EXCEPT ![c] =
                            IF res.err THEN @ ELSE AddRouters(@, ds, res.routers)]
    /\ UNCHANGED <<config, cachedConfig, configMutex, budget, poll, ticker, ticks,
                   caller, reader, reads, fnIn, fnOut>>

\* FetchPassthroughConfig returns: on an error the source is skipped,
\* otherwise the fetched document is merged under prefixed names
PassthroughFetched(c) ==
    /\ cyc[c].pc = "fetching"
    /\ config[cyc[c].i].Passthrough
    /\ \E resp \in ServerResponses(config[cyc[c].i].APIURL) :
         LET ds == config[cyc[c].i]
             res == FetchPassthroughConfig(ds, resp)
         IN  /\ cyc' = [cyc EXCEPT ![c].pc = "loop", ![c].i = @ + 1,
                                   ![c].fetched = Append(@, res)]
             /\ IF res.err THEN heap' = heap
                ELSE \E mo \in KeyOrders(res.config.Middlewares),
                        ro \in KeyOrders(res.config.Routers),
                        so \in KeyOrders(res.config.Services) :
                        heap' = [heap EXCEPT ![c] =
                                    MergePassthrough(@, ds, res.config, mo, ro, so)]
    /\ UNCHANGED <<config, cachedConfig, configMutex, budget, poll, ticker, ticks,
                   caller, reader, reads, fnIn, fnOut>>

\* Lock taken on entry and held through the loop over the sources
LockAtEntry(c) ==
    /\ cyc[c].pc = "loop"
    /\ configMutex.writer \in {0, c}
    /\ configMutex.readers = {}
    /\ configMutex.writer = c => cyc[c].i > Len(config)
    /\ configMutex' = [configMutex EXCEPT !.writer = c]
    /\ cyc' = [cyc EXCEPT ![c].pc = IF cyc[c].i > Len(config) THEN "locked" ELSE @]
    /\ UNCHANGED <<config, heap, cachedConfig, budget, poll, ticker, ticks,
                   caller, reader, reads, fnIn, fnOut>>

\* a.configMutex.Lock(), after the loop over the sources
Lock(c) ==
    /\ cyc[c].pc = "loop"
    /\ cyc[c].i > Len(config)
    /\ configMutex.writer = 0
    /\ configMutex.readers = {}
    /\ configMutex' = [configMutex EXCEPT !.writer = c]
    /\ cyc' = [cyc EXCEPT ![c].pc = "locked"]
    /\ UNCHANGED <<config, heap, cachedConfig, budget, poll, ticker, ticks,
                   caller, reader, reads, fnIn, fnOut>>

\* Store done as soon as newConfig exists, without the lock, the loop
\* then filling the maps already published
StoreEarly(c) ==
    /\ cyc[c].pc \in {"loop", "locked"}
    /\ cachedConfig # c \/ cyc[c].pc = "locked"
    /\ cachedConfig' = c
    /\ cyc' = [cyc EXCEPT ![c].pc = IF @ = "locked" THEN "stored" ELSE @]
    /\ UNCHANGED <<config, heap, configMutex, budget, poll, ticker, ticks,
                   caller, reader, reads, fnIn, fnOut>>

\* Store keeping the current document when it is that of a cycle started later
StoreIfNewer(c) ==
    /\ cyc[c].pc = "locked"
    /\ cachedConfig' = IF c > cachedConfig THEN c ELSE cachedConfig
    /\ cyc' = [cyc EXCEPT ![c].pc = "stored"]
    /\ UNCHANGED <<config, heap, configMutex, budget, poll, ticker, ticks,
                   caller, reader, reads, fnIn, fnOut>>

\* a.cachedConfig = newConfig
Store(c) ==
    /\ cyc[c].pc = "locked"
    /\ cachedConfig' = c
    /\ cyc' = [cyc EXCEPT ![c].pc = "stored"]
    /\ UNCHANGED <<config, heap, configMutex, budget, poll, ticker, ticks,
                   caller, reader, reads, fnIn, fnOut>>

\* a.configMutex.Unlock(), and the return
Unlock(c) ==
    /\ cyc[c].pc = "stored"
    /\ configMutex' = [configMutex EXCEPT !.writer = 0]
    /\ cyc' = [cyc EXCEPT ![c].pc = "done"]
    /\ UNCHANGED <<config, heap, cachedConfig, budget, poll, ticker, ticks,
                   caller, reader, reads, fnIn, fnOut>>

\* ---------------------------------------------------------------- pollLoop

\* time.NewTicker(duration)
NewTicker ==
    /\ poll.pc = "newTicker"
    /\ ticker' = [ticker EXCEPT !.on = TRUE]
    /\ poll' = [poll EXCEPT !.pc = "initial"]
    /\ UNCHANGED <<config, heap, cachedConfig, configMutex, cyc, budget, ticks,
                   caller, reader, reads, fnIn, fnOut>>

\* Tick on a channel that queues every tick
TickQueued ==
    /\ ticker.on
    /\ ticks < MaxTicks
    /\ ticks' = ticks + 1
    /\ ticker' = [ticker EXCEPT !.c = @ + 1]
    /\ UNCHANGED <<config, heap, cachedConfig, configMutex, cyc, budget, poll,
                   caller, reader, reads, fnIn, fnOut>>

\* the runtime's timer fires: the tick is dropped when the channel's one
\* slot is taken
Tick ==
    /\ ticker.on
    /\ ticks < MaxTicks
    /\ ticks' = ticks + 1
    /\ ticker' = [ticker EXCEPT !.c = 1]
    /\ UNCHANGED <<config, heap, cachedConfig, configMutex, cyc, budget, poll,
                   caller, reader, reads, fnIn, fnOut>>

\* the initial fetch
PollInitial ==
    /\ poll.pc = "initial"
    /\ StartCycle("poll", "startup")
    /\ poll' = [pc |-> "inCall", call |-> Len(cyc) + 1]
    /\ UNCHANGED <<config, cachedConfig, configMutex, ticker, ticks,
                   caller, reader, reads, fnIn, fnOut>>

\* agg.AggregateConfigs() returns to pollLoop
PollReturn ==
    /\ poll.pc = "inCall"
    /\ AggregateReturned(poll.call)
    /\ poll' = [poll EXCEPT !.pc = "recv"]
    /\ UNCHANGED <<config, heap, cachedConfig, configMutex, cyc, budget, ticker, ticks,
                   caller, reader, reads, fnIn, fnOut>>

\* for range ticker.C: a tick is received and the next cycle is called
PollRecv ==
    /\ poll.pc = "recv"
    /\ ticker.c > 0
    /\ ticker' = [ticker EXCEPT !.c = 0]
    /\ StartCycle("poll", "tick")
    /\ poll' = [pc |-> "inCall", call |-> Len(cyc) + 1]
    /\ UNCHANGED <<config, cachedConfig, configMutex, ticks,
                   caller, reader, reads, fnIn, fnOut>>

\* ------------------------------------------------- direct callers (the tests)

CallAggregate(w) ==
    /\ caller[w].pc = "idle"
    /\ StartCycle(w, "call")
    /\ caller' = [caller EXCEPT ![w] = [pc |-> "inCall", call |-> Len(cyc) + 1]]
    /\ UNCHANGED <<config, cachedConfig, configMutex, poll, ticker, ticks,
                   reader, reads, fnIn, fnOut>>

CallReturn(w) ==
    /\ caller[w].pc = "inCall"
    /\ AggregateReturned(caller[w].call)
    /\ caller' = [caller EXCEPT ![w].pc = "idle"]
    /\ UNCHANGED <<config, heap, cachedConfig, configMutex, cyc, budget, poll, ticker,
                   ticks, reader, reads, fnIn, fnOut>>

\* ------------------------------------------- GetCachedConfig, getTraefikConfig

\* a.configMutex.RLock()
RLock(g) ==
    /\ reader[g].pc = "idle"
    /\ reads < MaxReads
    /\ configMutex.writer = 0
    /\ reads' = reads + 1
    /\ configMutex' = [configMutex EXCEPT !.readers = @ \cup {g}]
    /\ reader' = [reader EXCEPT ![g].pc = "rlocked"]
    /\ UNCHANGED <<config, heap, cachedConfig, cyc, budget, poll, ticker, ticks,
                   caller, fnIn, fnOut>>

\* the return value is evaluated: a copy of the struct, sharing its maps
ReadCached(g) ==
    /\ reader[g].pc = "rlocked"
    /\ reader' = [reader EXCEPT ![g].pc = "read", ![g].ref = cachedConfig]
    /\ UNCHANGED <<config, heap, cachedConfig, configMutex, cyc, budget, poll, ticker,
                   ticks, caller, reads, fnIn, fnOut>>

\* the deferred a.configMutex.RUnlock()
RUnlock(g) ==
    /\ reader[g].pc = "read"
    /\ configMutex' = [configMutex EXCEPT !.readers = @ \ {g}]
    /\ reader' = [reader EXCEPT ![g].pc = "returned"]
    /\ UNCHANGED <<config, heap, cachedConfig, cyc, budget, poll, ticker, ticks,
                   caller, reads, fnIn, fnOut>>

\* the caller uses the returned value: json.NewEncoder(w).Encode(cachedConfig)
\* reads the maps as they are then
Encode(g) ==
    /\ reader[g].pc = "returned"
    /\ reader' = [reader EXCEPT ![g].pc = "idle", ![g].seenRef = reader[g].ref,
                                ![g].seen = heap[reader[g].ref]]
    /\ UNCHANGED <<config, heap, cachedConfig, configMutex, cyc, budget, poll, ticker,
                   ticks, caller, reads, fnIn, fnOut>>

\* ------------------------------------------------------------ specifications

CycleStep ==
    \E c \in Cycles :
        \/ Fetch(c)
        \/ RoutersFetched(c)
        \/ PassthroughFetched(c)
        \/ Lock(c)
        \/ Store(c)
        \/ Unlock(c)

ReaderStep ==
    \E g \in Readers : RLock(g) \/ ReadCached(g) \/ RUnlock(g) \/ Encode(g)

\* the program: main starts pollLoop and serves reads
Init ==
    /\ InitAggregator
    /\ NoFunction
    /\ config \in {<<srcS, srcQ>>, <<srcQ, srcS>>}
    /\ budget = MaxCycles
    /\ poll = [pc |-> "newTicker", call |-> 0]

Next ==
    \/ NewTicker
    \/ Tick
    \/ PollInitial
    \/ PollReturn
    \/ PollRecv
    \/ CycleStep
    \/ ReaderStep

Spec == Init /\ [][Next]_vars

\* the program with its goroutines scheduled: every goroutine that can take a
\* step eventually takes one, and the HTTP client's timeout ends every fetch
SpecLive ==
    /\ Spec
    /\ WF_vars(NewTicker)
    /\ WF_vars(PollInitial)
    /\ WF_vars(PollReturn)
    /\ WF_vars(PollRecv)
    /\ WF_vars(CycleStep)
    /\ WF_vars(ReaderStep)

\* the steps a goroutine takes with the lock held
SwapStep == \E c \in Cycles : Store(c) \/ Unlock(c)

\* the program with outbound calls that may never return: only the steps
\* that need no answer from a downstream are sure to be taken
SpecStuck ==
    /\ Spec
    /\ WF_vars(SwapStep)
    /\ WF_vars(ReaderStep)

\* the aggregator called directly, as the tests do: concurrent callers and readers
InitTest ==
    /\ InitAggregator
    /\ NoFunction
    /\ config \in {<<srcS, srcQ>>, <<srcQ, srcS>>}
    /\ budget = MaxCycles
    /\ poll = [pc |-> "off", call |-> 0]

NextTest ==
    \/ \E w \in Callers : CallAggregate(w) \/ CallReturn(w)
    \/ CycleStep
    \/ ReaderStep

SpecTest == InitTest /\ [][NextTest]_vars

\* concurrent callers of AggregateConfigs and no reader
NextRace ==
    \/ \E w \in Callers : CallAggregate(w) \/ CallReturn(w)
    \/ CycleStep

SpecRace == InitTest /\ [][NextRace]_vars

\* one call of AggregateConfigs on any list of at most MaxSources sources
InitAgg ==
    /\ InitAggregator
    /\ NoFunction
    /\ config \in UNION {[1..n -> AggSources] : n \in 0..MaxSources}
    /\ budget = 1
    /\ poll = [pc |-> "off", call |-> 0]

NextAgg ==
    \/ CallAggregate("w1")
    \/ CallReturn("w1")
    \/ CycleStep

SpecAgg == InitAgg /\ [][NextAgg]_vars

\* one call of AggregateConfigs on one normal-mode source, the source having
\* any TLS policy, backend override, entry-point override, middleware list,
\* transport reference and wildcard flag
normalSources ==
    {[Source(nameA, urlH, FALSE) EXCEPT
          !.TLS = t, !.BackendOverride = b, !.EntryPoints = e, !.Middlewares = m,
          !.ServerTransport = st, !.WildcardFix = f] :
        t \in {NilTLS,
               [nonNil |-> TRUE, CertResolver |-> "", StripResolver |-> FALSE],
               [nonNil |-> TRUE, CertResolver |-> "le", StripResolver |-> FALSE]},
        b \in {<<>>, <<"b",":","9">>, httpsScheme \o <<"b">>},
        e \in {<<>>, <<"websecure">>},
        m \in {<<>>, << <<"a","u","t","h","@","f">>, <<"g","z">> >>},
        st \in {"", "insecure"},
        f \in BOOLEAN}

InitNormal ==
    /\ InitAggregator
    /\ NoFunction
    /\ config \in {<<ds>> : ds \in normalSources}
    /\ budget = 1
    /\ poll = [pc |-> "off", call |-> 0]

NormalCycleStep ==
    \E c \in Cycles :
        \/ Fetch(c)
        \/ RoutersFetched(c)
        \/ Lock(c)
        \/ Store(c)
        \/ Unlock(c)

NextNormal ==
    \/ CallAggregate("w1")
    \/ CallReturn("w1")
    \/ NormalCycleStep

SpecNormal == InitNormal /\ [][NextNormal]_vars

\* ------------------------------------------- functions checked on their own

sysVars == <<config, heap, cachedConfig, configMutex, cyc, budget, poll, ticker, ticks,
             caller, reader, reads>>

\* no goroutine runs
InitIdle ==
    /\ InitAggregator
    /\ config = <<>>
    /\ budget = 0
    /\ poll = [pc |-> "off", call |-> 0]

tlsPolicies ==
    {NilTLS} \cup [nonNil : {TRUE}, CertResolver : {"", "le"}, StripResolver : BOOLEAN]

existingTLSMaps ==
    {NilMap, rTLS.TLS, rDup.TLS,
     [certResolver |-> "old", domains |-> << [Main |-> <<"o">>, Sans |-> <<>>] >>]}

\* BuildTLSConfig on any policy, rule and fetched TLS options
InitTLS ==
    /\ InitIdle
    /\ fnIn \in [ds : {[srcA EXCEPT !.TLS = t, !.WildcardFix = f] :
                            t \in tlsPolicies, f \in BOOLEAN},
                 rule : {ruleHost, ruleMixed, ruleBoth, rulePath},
                 existingTLS : existingTLSMaps]
    /\ fnOut = [done |-> FALSE]

CallBuildTLSConfig ==
    /\ ~fnOut.done
    /\ fnOut' = [done |-> TRUE,
                 val |-> BuildTLSConfig(fnIn.ds, fnIn.rule, fnIn.existingTLS)]
    /\ UNCHANGED <<sysVars, fnIn>>

NextTLS == CallBuildTLSConfig

SpecTLS == InitTLS /\ [][NextTLS]_vars

\* the two fetch functions on any source and any response
allResponses ==
    UNION {ServerResponses(u) : u \in {urlH, urlP, urlS, urlQ, urlBad}}

InitFetch ==
    /\ InitIdle
    /\ fnIn \in [ds : AggSources \cup {srcS, srcQ, [srcAB EXCEPT !.APIURL = urlBad]},
                 resp : allResponses]
    /\ fnOut = [done |-> FALSE]

CallFetchDownstreamRouters ==
    /\ ~fnOut.done
    /\ ~fnIn.ds.Passthrough
    /\ fnOut' = [done |-> TRUE, val |-> FetchDownstreamRouters(fnIn.ds, fnIn.resp)]
    /\ UNCHANGED <<sysVars, fnIn>>

CallFetchPassthroughConfig ==
    /\ ~fnOut.done
    /\ fnIn.ds.Passthrough
    /\ fnOut' = [done |-> TRUE, val |-> FetchPassthroughConfig(fnIn.ds, fnIn.resp)]
    /\ UNCHANGED <<sysVars, fnIn>>

NextFetch == CallFetchDownstreamRouters \/ CallFetchPassthroughConfig

SpecFetch == InitFetch /\ [][NextFetch]_vars

\* all sequences over S of length at most n
SeqsUpTo(S, n) == UNION {[1..k -> S] : k \in 0..n}

\* ShouldIgnoreRouter on any two lists of at most MaxEntryPoints entry points
entryPointNames == {"web", "Web", "traefik"}

InitIgnore ==
    /\ InitIdle
    /\ fnIn \in [router : {[rWeb EXCEPT !.EntryPoints = e] :
                                e \in SeqsUpTo(entryPointNames, MaxEntryPoints)},
                 ignoreEntryPoints : SeqsUpTo(entryPointNames, MaxEntryPoints)]
    /\ fnOut = [done |-> FALSE]

CallShouldIgnoreRouter ==
    /\ ~fnOut.done
    /\ fnOut' = [done |-> TRUE,
                 val |-> ShouldIgnoreRouter(fnIn.router, fnIn.ignoreEntryPoints)]
    /\ UNCHANGED <<sysVars, fnIn>>

NextIgnore == CallShouldIgnoreRouter

SpecIgnore == InitIgnore /\ [][NextIgnore]_vars

\* GetBackendURL on addresses and overrides put together from their parts
urlSchemes == {<<>>, httpScheme, httpsScheme}
urlHosts == {<<"h">>, <<"[",":",":","1","]">>}
urlPorts == {<<>>, <<":","9">>, <<":","8","0">>}
urlPaths == {<<>>, <<"/">>, <<"/","a",":","b","/","c">>}
overrideHosts == {<<>>, <<"b">>, <<"b",":","9">>}

InitBackend ==
    /\ InitIdle
    /\ \E scheme \in urlSchemes, host \in urlHosts, port \in urlPorts, path \in urlPaths,
          oScheme \in urlSchemes, oHost \in overrideHosts, useTLS \in BOOLEAN :
          fnIn = [scheme |-> scheme, host |-> host, port |-> port, path |-> path,
                  oScheme |-> oScheme, oHost |-> oHost,
                  ds |-> [srcA EXCEPT !.APIURL = scheme \o host \o port \o path,
                                       !.BackendOverride = oScheme \o oHost],
                  useTLS |-> useTLS]
    /\ fnOut = [done |-> FALSE]

CallGetBackendURL ==
    /\ ~fnOut.done
    /\ fnOut' = [done |-> TRUE, val |-> GetBackendURL(fnIn.ds, fnIn.useTLS)]
    /\ UNCHANGED <<sysVars, fnIn>>

NextBackend == CallGetBackendURL

SpecBackend == InitBackend /\ [][NextBackend]_vars

\* ExtractDomainsFromRule on rules of at most MaxMatchers matchers joined
\* by " || ": each matcher with its text, and for a host matcher the domain
\* it stands for (none for a regex no wildcard prefix begins)
matchers ==
    {[kind |-> "Host", text |-> hostRegex \o <<"x",".","y",BQ,")">>,
      domain |-> <<"x",".","y">>],
     [kind |-> "Host", text |-> hostRegex \o <<"w",BQ,")">>, domain |-> <<"w">>],
     [kind |-> "HostRegexp",
      text |-> hostRegexpRegex \o <<"^",".","+","\\",".","z","$",BQ,")">>,
      domain |-> <<"*",".","z">>],
     [kind |-> "HostRegexp",
      text |-> hostRegexpRegex \o <<"^","[","^",".","]","+","\\",".","v",BQ,")">>,
      domain |-> <<"*",".","v">>],
     [kind |-> "HostRegexp", text |-> hostRegexpRegex \o <<"z","$",BQ,")">>,
      domain |-> <<>>],
     [kind |-> "Path", text |-> rulePath, domain |-> <<>>]}

\* the rule made of the matchers: m1 || m2 || ...
RECURSIVE RuleOf(_)
RuleOf(ms) ==
    IF ms = <<>> THEN <<>>
    ELSE IF Len(ms) = 1 THEN ms[1].text
    ELSE ms[1].text \o <<" ","|","|"," ">> \o RuleOf(Tail(ms))

InitDomain ==
    /\ InitIdle
    /\ \E ms \in SeqsUpTo(matchers, MaxMatchers), wildcardFix \in BOOLEAN :
          fnIn = [matchers |-> ms, rule |-> RuleOf(ms), wildcardFix |-> wildcardFix]
    /\ fnOut = [done |-> FALSE]

CallExtractDomainsFromRule ==
    /\ ~fnOut.done
    /\ fnOut' = [done |-> TRUE,
                 val |-> ExtractDomainsFromRule(fnIn.rule, fnIn.wildcardFix)]
    /\ UNCHANGED <<sysVars, fnIn>>

NextDomain == CallExtractDomainsFromRule

SpecDomain == InitDomain /\ [][NextDomain]_vars

\* ConvertRegexpToWildcard on patterns put together from a head, a body and
\* a tail: the five prefixes and heads that come close to one; bodies with
\* their text once every \. is read as a dot; tails of "$" signs
patternHeads ==
    {wildcardPrefixes[n] : n \in 1..Len(wildcardPrefixes)}
    \cup {<<>>, <<"^">>, <<".","+","\\",".">>, <<"^",".","+",".">>,
          <<"^","[","a","-","z","]","+","\\",".">>}

patternBodies ==
    {[text |-> <<>>, plain |-> <<>>],
     [text |-> <<"z">>, plain |-> <<"z">>],
     [text |-> <<"a","\\",".","b","\\",".","c">>, plain |-> <<"a",".","b",".","c">>],
     [text |-> <<"a",".","b">>, plain |-> <<"a",".","b">>],
     [text |-> <<"a","\\","\\",".","b">>, plain |-> <<"a","\\",".","b">>],
     [text |-> <<"a","$","b">>, plain |-> <<"a","$","b">>]}

patternTails == {<<>>, <<"$">>, <<"$","$">>}

InitWildcard ==
    /\ InitIdle
    /\ \E head \in patternHeads, body \in patternBodies, tail \in patternTails :
          fnIn = [head |-> head, body |-> body, tail |-> tail,
                  pattern |-> head \o body.text \o tail]
    /\ fnOut = [done |-> FALSE]

CallConvertRegexpToWildcard ==
    /\ ~fnOut.done
    /\ fnOut' = [done |-> TRUE, val |-> ConvertRegexpToWildcard(fnIn.pattern)]
    /\ UNCHANGED <<sysVars, fnIn>>

NextWildcard == CallConvertRegexpToWildcard

SpecWildcard == InitWildcard /\ [][NextWildcard]_vars

\* ------------------------------------------------------------------- claims

\* the cycle has left its loop over the sources: newConfig is complete
BuildComplete(c) == cyc[c].pc \in {"locked", "stored", "done"}

\* C1: whatever a reader got from GetCachedConfig, and whenever it looks at
\* it, is the initial empty document or the complete document of one cycle
\* that has finished building it: never a document under construction, never
\* a mixture.
C1_ReadsAreComplete ==
    \A g \in Readers :
        /\ reader[g].ref # 0 => BuildComplete(reader[g].ref)
        /\ reader[g].seenRef = 0 => reader[g].seen = EmptyConfig
        /\ reader[g].seenRef # 0 =>
              /\ BuildComplete(reader[g].seenRef)
              /\ Len(cyc[reader[g].seenRef].fetched) = Len(config)
              /\ reader[g].seen = heap[reader[g].seenRef]

\* a reader holds the non-empty document of one cycle while another cycle
\* is in the middle of its fetches
C1_Witness ==
    \E g \in Readers, c \in Cycles :
        /\ reader[g].seenRef \notin {0, c}
        /\ reader[g].pc = "idle"
        /\ Cardinality(DOMAIN reader[g].seen.Routers) >= 1
        /\ Cardinality(DOMAIN reader[g].seen.Services) >= 2
        /\ cyc[c].pc = "fetching"
        /\ cyc[c].i = 2
        /\ heap[c] # EmptyConfig

\* the canonical visiting order of a map's keys, for restating a merge
SomeOrder(m) == CHOOSE o \in KeyOrders(m) : TRUE

\* the document made from the sources whose fetch succeeded, and from no other
RECURSIVE OnlySucceeded(_, _, _)
OnlySucceeded(doc, sources, results) ==
    IF sources = <<>> THEN doc
    ELSE LET ds == Head(sources)
             res == Head(results)
             next == IF res.err THEN doc
                     ELSE IF ds.Passthrough
                     THEN MergePassthrough(doc, ds, res.config,
                                           SomeOrder(res.config.Middlewares),
                                           SomeOrder(res.config.Routers),
                                           SomeOrder(res.config.Services))
                     ELSE AddRouters(doc, ds, res.routers)
         IN  OnlySucceeded(next, Tail(sources), Tail(results))

\* C2: when a cycle publishes, every source has been fetched once, whichever
\* of them failed, and the document is the one the successful sources alone
\* produce: a failed source contributes nothing.
C2_FailuresAreSkipped ==
    \A c \in Cycles :
        BuildComplete(c) =>
            /\ Len(cyc[c].fetched) = Len(config)
            /\ heap[c] = OnlySucceeded(EmptyConfig, config, cyc[c].fetched)

\* a published cycle whose first source, a passthrough one, failed and whose
\* second, a normal one, contributed routes
C2_Witness ==
    \E c \in Cycles :
        /\ cyc[c].pc = "done"
        /\ cachedConfig = c
        /\ Len(config) = 2
        /\ config[1].Passthrough /\ cyc[c].fetched[1].err
        /\ ~config[2].Passthrough /\ ~cyc[c].fetched[2].err
        /\ DOMAIN heap[c].Routers # {}

\* C10: the cycles pollLoop drives run one at a time: the first is the
\* startup cycle, every timer-driven cycle starts after it has returned, and
\* at most one of them is in progress.
C10_PollCyclesSequential ==
    LET pollCycles == {c \in Cycles : cyc[c].driver = "poll"}
    IN  /\ \A c, d \in pollCycles :
              (cyc[c].pc # "done" /\ cyc[d].pc # "done") => c = d
        /\ \A c \in pollCycles :
              IF \A d \in pollCycles : c <= d
              THEN cyc[c].cause = "startup"
              ELSE /\ cyc[c].cause = "tick"
                   /\ \E d \in pollCycles :
                         d < c /\ cyc[d].cause = "startup" /\ cyc[d].pc = "done"
        /\ \A c, d \in pollCycles : c < d => cyc[c].pc = "done"

\* a timer-driven cycle is fetching while the next tick already waits
C10_Witness ==
    \E c \in Cycles :
        /\ cyc[c].driver = "poll"
        /\ cyc[c].cause = "tick"
        /\ cyc[c].pc = "fetching"
        /\ ticker.c = 1

\* the document the aggregator serves
Published == heap[cachedConfig]

\* the keys source n of cycle c wrote, by mapping
RouteKeysOf(c, n) ==
    LET ds == config[n]
        res == cyc[c].fetched[n]
    IN  IF ds.Passthrough
        THEN {Prefixed(ds.Name, r) : r \in DOMAIN res.config.Routers}
        ELSE {HTTPRouterName(ds, RouterBaseName(res.routers[j].Name)) :
                j \in {l \in 1..Len(res.routers) :
                         ~ShouldIgnoreRouter(res.routers[l], ds.IgnoreEntryPoints)}}

ServiceKeysOf(c, n) ==
    LET ds == config[n]
        res == cyc[c].fetched[n]
    IN  IF ds.Passthrough
        THEN {Prefixed(ds.Name, r) : r \in DOMAIN res.config.Services}
        ELSE {HTTPServiceName(ds, RouterBaseName(res.routers[j].Name)) :
                j \in {l \in 1..Len(res.routers) :
                         ~ShouldIgnoreRouter(res.routers[l], ds.IgnoreEntryPoints)}}

MiddlewareKeysOf(c, n) ==
    {Prefixed(config[n].Name, r) : r \in DOMAIN cyc[c].fetched[n].config.Middlewares}

\* source n of cycle c is a passthrough source whose fetch succeeded
PassthroughOK(c, n) == config[n].Passthrough /\ ~cyc[c].fetched[n].err

\* source n of cycle c is a normal-mode source whose fetch succeeded
NormalOK(c, n) == ~config[n].Passthrough /\ ~cyc[c].fetched[n].err

\* C3 (as claimed): with strip-resolver set in the source's TLS policy, the
\* map BuildTLSConfig returns has no certResolver key.
C3_StripResolverWins ==
    (fnOut.done /\ fnIn.ds.TLS.nonNil /\ fnIn.ds.TLS.StripResolver)
        => "certResolver" \notin DOMAIN fnOut.val

\* C4 (as claimed): every route of the published document refers to a
\* backend group that is a key of the document's backend-group mapping.
C4_EveryServiceResolves ==
    \A k \in DOMAIN Published.Routers :
        Published.Routers[k].Service \in DOMAIN Published.Services

\* the route key k with reference s is the prefixed form of a router of a
\* fetched passthrough document whose reference that document does not hold
ServiceDanglingUpstream(c, k, s) ==
    \E n \in 1..Len(config) :
        /\ PassthroughOK(c, n)
        /\ \E r \in DOMAIN cyc[c].fetched[n].config.Routers :
              LET up == cyc[c].fetched[n].config
              IN  /\ k = Prefixed(config[n].Name, r)
                  /\ s = Prefixed(config[n].Name, up.Routers[r].Service)
                  /\ up.Routers[r].Service \notin DOMAIN up.Services

\* C4 (amended): every route of the published document refers to a key of
\* its backend-group mapping, except a route merged from a passthrough
\* document that did not itself hold the backend group the route names.
C4_ServiceResolvesUnlessDanglingUpstream ==
    cachedConfig # 0 =>
        \A k \in DOMAIN Published.Routers :
            \/ Published.Routers[k].Service \in DOMAIN Published.Services
            \/ ServiceDanglingUpstream(cachedConfig, k, Published.Routers[k].Service)

\* a published document with routes of a normal and of a passthrough source,
\* every reference resolved
C4_Witness ==
    /\ cachedConfig # 0
    /\ Len(config) = 2
    /\ NormalOK(cachedConfig, 1) /\ RouteKeysOf(cachedConfig, 1) # {}
    /\ PassthroughOK(cachedConfig, 2) /\ RouteKeysOf(cachedConfig, 2) # {}
    /\ RouteKeysOf(cachedConfig, 1) \cap RouteKeysOf(cachedConfig, 2) = {}
    /\ C4_EveryServiceResolves

\* router r of passthrough source n is the entry the published document
\* holds under its prefixed key: no source processed later wrote that key
MergedFromPassthrough(c, n, r) ==
    /\ PassthroughOK(c, n)
    /\ r \in DOMAIN cyc[c].fetched[n].config.Routers
    /\ \A m \in (n + 1)..Len(config) :
          Prefixed(config[n].Name, r) \notin RouteKeysOf(c, m)

\* C5 (as claimed): every middleware reference of a route merged from a
\* passthrough source is a key of the published middleware mapping.
C5_EveryMiddlewareResolves ==
    cachedConfig # 0 =>
        \A n \in 1..Len(config) :
            \A r \in DOMAIN cyc[cachedConfig].fetched[n].config.Routers :
                MergedFromPassthrough(cachedConfig, n, r) =>
                    LET route == Published.Routers[Prefixed(config[n].Name, r)]
                    IN  \A i \in 1..Len(route.Middlewares) :
                            route.Middlewares[i] \in DOMAIN Published.Middlewares

\* C5 (amended): ... except a reference that the fetched passthrough
\* document did not itself define.
C5_MiddlewareResolvesUnlessDanglingUpstream ==
    cachedConfig # 0 =>
        \A n \in 1..Len(config) :
            \A r \in DOMAIN cyc[cachedConfig].fetched[n].config.Routers :
                MergedFromPassthrough(cachedConfig, n, r) =>
                    LET up == cyc[cachedConfig].fetched[n].config
                        route == Published.Routers[Prefixed(config[n].Name, r)]
                    IN  /\ Len(route.Middlewares) = Len(up.Routers[r].Middlewares)
                        /\ \A i \in 1..Len(route.Middlewares) :
                            \/ route.Middlewares[i] \in DOMAIN Published.Middlewares
                            \/ /\ route.Middlewares[i] =
                                    Prefixed(config[n].Name, up.Routers[r].Middlewares[i])
                               /\ up.Routers[r].Middlewares[i] \notin DOMAIN up.Middlewares

\* a published passthrough route whose middleware reference resolves
C5_Witness ==
    /\ cachedConfig # 0
    /\ \E n \in 1..Len(config) :
         \E r \in DOMAIN cyc[cachedConfig].fetched[n].config.Routers :
            /\ MergedFromPassthrough(cachedConfig, n, r)
            /\ Len(Published.Routers[Prefixed(config[n].Name, r)].Middlewares) >= 1
            /\ \A i \in 1..Len(Published.Routers[Prefixed(config[n].Name, r)].Middlewares) :
                 Published.Routers[Prefixed(config[n].Name, r)].Middlewares[i]
                    \in DOMAIN Published.Middlewares

\* no two sources of cycle c wrote the same route key or backend-group key
NoSharedKey(c) ==
    \A m, n \in 1..Len(config) :
        m # n =>
            /\ RouteKeysOf(c, m) \cap RouteKeysOf(c, n) = {}
            /\ ServiceKeysOf(c, m) \cap ServiceKeysOf(c, n) = {}

DistinctNames ==
    \A m, n \in 1..Len(config) : m # n => config[m].Name # config[n].Name

\* C6 (as claimed): with pairwise distinct source names no two sources are
\* assigned the same route key or backend-group key.
C6_DistinctNamesNeverCollide ==
    \A c \in Cycles : (BuildComplete(c) /\ DistinctNames) => NoSharedKey(c)

\* no source name followed by "-" begins another source's name followed by
\* "-" (so the names are distinct), and no passthrough source is named
\* "service" or "service-..."
NoNameClash ==
    /\ \A m, n \in 1..Len(config) :
          m # n => ~HasPrefix(config[n].Name \o <<"-">>, config[m].Name \o <<"-">>)
    /\ \A n \in 1..Len(config) :
          config[n].Passthrough =>
              ~HasPrefix(config[n].Name \o <<"-">>, servicePrefix \o <<"-">>)

\* C6 (amended): when no source's name followed by "-" is a prefix of another
\* source's name followed by "-", and no passthrough source is named
\* "service" or "service-...", no two sources are assigned the same route
\* key or backend-group key.
C6_NoClashNeverCollide ==
    \A c \in Cycles : (BuildComplete(c) /\ NoNameClash) => NoSharedKey(c)

\* a normal and a passthrough source, one name holding a dash, both
\* contributing routes and backend groups
C6_Witness ==
    \E c \in Cycles :
        /\ BuildComplete(c)
        /\ NoNameClash
        /\ Len(config) = 2
        /\ NormalOK(c, 1) /\ PassthroughOK(c, 2)
        /\ Contains(config[2].Name, "-")
        /\ RouteKeysOf(c, 1) # {} /\ RouteKeysOf(c, 2) # {}
        /\ ServiceKeysOf(c, 1) # {} /\ ServiceKeysOf(c, 2) # {}

\* the name cut at its first "@", if it has one
CutAtFirstAt(name) ==
    IF \E i \in 1..Len(name) : name[i] = "@"
    THEN SubSeq(name, 1,
                (CHOOSE i \in 1..Len(name) :
                    name[i] = "@" /\ \A j \in 1..(i - 1) : name[j] # "@") - 1)
    ELSE name

\* a passthrough router as the claim says it is merged under source name n
PrefixedCopy(n, router) ==
    [Rule |-> router.Rule,
     Service |-> n \o <<"-">> \o router.Service,
     EntryPoints |-> router.EntryPoints,
     Middlewares |-> [i \in 1..Len(router.Middlewares) |->
                         n \o <<"-">> \o router.Middlewares[i]],
     TLS |-> router.TLS]

\* a source processed after source n of cycle c wrote the same key
RouteKeyRewritten(c, n, k) == \E m \in (n + 1)..Len(config) : k \in RouteKeysOf(c, m)
ServiceKeyRewritten(c, n, k) == \E m \in (n + 1)..Len(config) : k \in ServiceKeysOf(c, m)
MiddlewareKeyRewritten(c, n, k) ==
    \E m \in (n + 1)..Len(config) : k \in MiddlewareKeysOf(c, m)

\* C7 (as claimed): every router, backend group and middleware of a fetched
\* passthrough document is in the published document under its prefixed
\* key, the router with its references prefixed and everything else copied.
C7_PassthroughCopied ==
    cachedConfig # 0 =>
        \A n \in 1..Len(config) :
            PassthroughOK(cachedConfig, n) =>
                LET name == config[n].Name
                    up == cyc[cachedConfig].fetched[n].config
                IN  /\ \A k \in DOMAIN up.Routers :
                          /\ name \o <<"-">> \o k \in DOMAIN Published.Routers
                          /\ Published.Routers[name \o <<"-">> \o k]
                                = PrefixedCopy(name, up.Routers[k])
                    /\ \A k \in DOMAIN up.Services :
                          /\ name \o <<"-">> \o k \in DOMAIN Published.Services
                          /\ Published.Services[name \o <<"-">> \o k] = up.Services[k]
                    /\ \A k \in DOMAIN up.Middlewares :
                          /\ name \o <<"-">> \o k \in DOMAIN Published.Middlewares
                          /\ Published.Middlewares[name \o <<"-">> \o k] = up.Middlewares[k]

\* C7 (amended): every such key is in the published document, and its entry
\* is the prefixed copy unless a source processed later in the cycle wrote
\* the same key.
C7_PassthroughCopiedUnlessRewritten ==
    cachedConfig # 0 =>
        \A n \in 1..Len(config) :
            PassthroughOK(cachedConfig, n) =>
                LET name == config[n].Name
                    up == cyc[cachedConfig].fetched[n].config
                IN  /\ \A k \in DOMAIN up.Routers :
                          /\ name \o <<"-">> \o k \in DOMAIN Published.Routers
                          /\ \/ RouteKeyRewritten(cachedConfig, n, name \o <<"-">> \o k)
                             \/ Published.Routers[name \o <<"-">> \o k]
                                   = PrefixedCopy(name, up.Routers[k])
                    /\ \A k \in DOMAIN up.Services :
                          /\ name \o <<"-">> \o k \in DOMAIN Published.Services
                          /\ \/ ServiceKeyRewritten(cachedConfig, n, name \o <<"-">> \o k)
                             \/ Published.Services[name \o <<"-">> \o k] = up.Services[k]
                    /\ \A k \in DOMAIN up.Middlewares :
                          /\ name \o <<"-">> \o k \in DOMAIN Published.Middlewares
                          /\ \/ MiddlewareKeyRewritten(cachedConfig, n, name \o <<"-">> \o k)
                             \/ Published.Middlewares[name \o <<"-">> \o k]
                                   = up.Middlewares[k]

\* a published document holding, after a normal source's routes, the two
\* routers of a passthrough document, one with two middleware references
C7_Witness ==
    /\ cachedConfig # 0
    /\ Len(config) = 2
    /\ NormalOK(cachedConfig, 1) /\ RouteKeysOf(cachedConfig, 1) # {}
    /\ PassthroughOK(cachedConfig, 2)
    /\ Cardinality(DOMAIN cyc[cachedConfig].fetched[2].config.Routers) = 2
    /\ \E k \in DOMAIN Published.Routers : Len(Published.Routers[k].Middlewares) = 2

\* C8 (as claimed): every kept route of a normal-mode source is published
\* under name-base, with a backend group under service-name-base, and the
\* published route refers to that backend group.
C8_SynthesizedNames ==
    cachedConfig # 0 =>
        \A n \in 1..Len(config) :
            NormalOK(cachedConfig, n) =>
                \A j \in 1..Len(cyc[cachedConfig].fetched[n].routers) :
                    LET router == cyc[cachedConfig].fetched[n].routers[j]
                        key == config[n].Name \o <<"-">> \o CutAtFirstAt(router.Name)
                        service == <<"s","e","r","v","i","c","e","-">> \o key
                    IN  ~ShouldIgnoreRouter(router, config[n].IgnoreEntryPoints) =>
                            /\ key \in DOMAIN Published.Routers
                            /\ service \in DOMAIN Published.Services
                            /\ Published.Routers[key].Service = service

\* C8 (amended): ... and the published route refers to that backend group
\* unless a passthrough source processed later wrote the same route key.
C8_SynthesizedNamesUnlessRewritten ==
    cachedConfig # 0 =>
        \A n \in 1..Len(config) :
            NormalOK(cachedConfig, n) =>
                \A j \in 1..Len(cyc[cachedConfig].fetched[n].routers) :
                    LET router == cyc[cachedConfig].fetched[n].routers[j]
                        key == config[n].Name \o <<"-">> \o CutAtFirstAt(router.Name)
                        service == <<"s","e","r","v","i","c","e","-">> \o key
                    IN  ~ShouldIgnoreRouter(router, config[n].IgnoreEntryPoints) =>
                            /\ key \in DOMAIN Published.Routers
                            /\ service \in DOMAIN Published.Services
                            /\ \/ \E m \in (n + 1)..Len(config) :
                                     /\ config[m].Passthrough
                                     /\ key \in RouteKeysOf(cachedConfig, m)
                               \/ Published.Routers[key].Service = service

\* a published normal-mode source with a route named "@k" (cut at position
\* 0), one with a provider suffix and a later source that is not in the way
C8_Witness ==
    /\ cachedConfig # 0
    /\ Len(config) = 2
    /\ NormalOK(cachedConfig, 1)
    /\ PassthroughOK(cachedConfig, 2)
    /\ \E j \in 1..Len(cyc[cachedConfig].fetched[1].routers) :
          /\ cyc[cachedConfig].fetched[1].routers[j].Name = <<"@","k">>
          /\ config[1].Name \o <<"-">> \in DOMAIN Published.Routers
    /\ \E j \in 1..Len(cyc[cachedConfig].fetched[1].routers) :
          /\ cyc[cachedConfig].fetched[1].routers[j].Name = <<"r","@","k">>
          /\ Published.Routers[config[1].Name \o <<"-","r">>].Service
                # cyc[cachedConfig].fetched[1].routers[j].Service

\* the response's body decodes as what the called fetch function expects
Decodes == fnIn.resp.body.shape = (IF fnIn.ds.Passthrough THEN "config" ELSE "routers")

\* the request was made and answered
Answered == fnIn.ds.APIURL # urlBad /\ fnIn.resp.transport = "ok"

\* C9 (as claimed): a fetch succeeds exactly when the answer has a 2xx
\* status and a body of the expected shape; otherwise it gives an error and
\* no data.
C9_SuccessIffAny2xx ==
    fnOut.done =>
        /\ ~fnOut.val.err <=>
              (Answered /\ fnIn.resp.status \in 200..299 /\ Decodes)
        /\ fnOut.val.err => (fnOut.val.routers = <<>> /\ fnOut.val.config = EmptyConfig)

\* C9 (amended): a fetch succeeds exactly when the answer has status 200
\* and a body of the expected shape, and then returns the decoded body;
\* otherwise it gives an error and no data.
C9_SuccessIffStatus200 ==
    fnOut.done =>
        /\ ~fnOut.val.err <=> (Answered /\ fnIn.resp.status = 200 /\ Decodes)
        /\ fnOut.val.err => (fnOut.val.routers = <<>> /\ fnOut.val.config = EmptyConfig)
        /\ ~fnOut.val.err =>
              IF fnIn.ds.Passthrough
              THEN fnOut.val.config = fnIn.resp.body.config
              ELSE fnOut.val.routers = fnIn.resp.body.routers

\* a passthrough fetch that succeeded with a document holding routers
C9_Witness ==
    /\ fnOut.done
    /\ ~fnOut.val.err
    /\ fnIn.ds.Passthrough
    /\ DOMAIN fnOut.val.config.Routers # {}

\* how far a call of AggregateConfigs has got
Progress(c) ==
    LET rank == [loop |-> 0, fetching |-> 0, locked |-> 1, stored |-> 2, done |-> 3]
    IN  <<rank[c.pc], c.i, IF c.pc = "fetching" THEN 1 ELSE 0>>

NotBehind(p, q) ==
    \/ p[1] > q[1]
    \/ p[1] = q[1] /\ p[2] > q[2]
    \/ p[1] = q[1] /\ p[2] = q[2] /\ p[3] >= q[3]

PollCycles == {c \in Cycles : cyc[c].driver = "poll"}

\* at most one run is pending, and the cycles started number at most one
\* more than the ticks
C11_AtMostOnePending ==
    /\ ticker.c \in {0, 1}
    /\ Cardinality({c \in PollCycles : cyc[c].cause = "tick"}) + ticker.c <= ticks
    /\ Cardinality(PollCycles) <= 1 + ticks

\* a step never takes a cycle back or away, and a tick leaves the running
\* cycle and pollLoop where they are
C11_NotInterrupted ==
    /\ \A c \in Cycles :
          /\ c \in 1..Len(cyc')
          /\ NotBehind(Progress(cyc'[c]), Progress(cyc[c]))
    /\ ticks' # ticks => cyc' = cyc /\ poll' = poll

\* a tick that elapsed during cycle n is followed by the start of the next
\* cycle, which happens with pollLoop back from cycle n
C11_NextStartsAfter(n) ==
    (poll.pc = "inCall" /\ poll.call = n /\ ticker.c = 1 /\ budget > 0)
        ~> (Len(cyc) > n /\ cyc[n].pc = "done" /\ cyc[n + 1].cause = "tick")

\* C11: a pollLoop cycle that outlasts the interval is not interrupted, the
\* ticks that elapse meanwhile leave at most one pending run, the next cycle
\* starts once the running one has finished, and the cycles started never
\* number more than one plus the ticks.
C11_OverrunCoalesced ==
    /\ []C11_AtMostOnePending
    /\ [][C11_NotInterrupted]_vars
    /\ \A n \in 1..MaxCycles : C11_NextStartsAfter(n)

\* two ticks elapsed, one was dropped, and the one kept started the second
\* cycle after the first had finished
C11_Witness ==
    /\ ticks = 2
    /\ Len(cyc) = 2
    /\ cyc[1].pc = "done"
    /\ cyc[2].cause = "tick" /\ cyc[2].pc = "fetching"
    /\ ticker.c = 0

\* the write lock is held by a cycle between its Lock and its Unlock only,
\* the read lock by a reader while it copies the document only, and no lock
\* is held while a cycle is in its loop over the sources
C12_LocksAroundSwapOnly ==
    /\ \A c \in Cycles :
          configMutex.writer = c <=> cyc[c].pc \in {"locked", "stored"}
    /\ configMutex.writer # 0 => configMutex.writer \in Cycles
    /\ \A g \in Readers :
          g \in configMutex.readers <=> reader[g].pc \in {"rlocked", "read"}
    /\ (\E c \in Cycles : cyc[c].pc \in {"loop", "fetching"}) => configMutex.writer = 0
    /\ configMutex.writer # 0 => configMutex.readers = {}

\* with the write lock held nothing is fetched or transformed, only the
\* holder of the write lock assigns the current document, and a reader
\* holding the read lock does nothing but copy the current document
C12_NoWorkUnderLock ==
    /\ \A c \in Cycles :
          configMutex.writer = c =>
              /\ heap' = heap
              /\ cyc'[c].fetched = cyc[c].fetched
              /\ cyc'[c].i = cyc[c].i
    /\ cachedConfig' # cachedConfig =>
          /\ configMutex.writer # 0
          /\ cachedConfig' = configMutex.writer
          /\ configMutex' = configMutex
    /\ \A g \in Readers :
          g \in configMutex.readers =>
              /\ reader'[g].ref \in {reader[g].ref, cachedConfig}
              /\ reader'[g].seen = reader[g].seen
              /\ reader'[g].seenRef = reader[g].seenRef

\* C12: the write lock is held only for the assignment that installs the new
\* document and the read lock only for copying the current document; no
\* fetch or transform step happens with a lock held, so with outbound calls
\* that never return the write lock is still released and a read completes.
C12_LocksOnlyForSwap ==
    /\ []C12_LocksAroundSwapOnly
    /\ [][C12_NoWorkUnderLock]_vars
    /\ (configMutex.writer # 0) ~> (configMutex.writer = 0)
    /\ \A g \in Readers :
          (reader[g].pc \in {"rlocked", "read"}) ~> (reader[g].pc = "returned")

\* a read has returned a document while the second cycle waits for the
\* answer of its first source
C12_Witness ==
    /\ Len(cyc) = 2
    /\ cyc[2].pc = "fetching" /\ cyc[2].i = 1
    /\ \E g \in Readers : reader[g].pc = "returned" /\ reader[g].ref = 1
    /\ reads = 2

\* no step changes the zero document, a document that was published, or a
\* document a reader holds
C13_NoWriteToPublished ==
    /\ heap'[0] = heap[0]
    /\ \A c \in Cycles : cyc[c].pc \in {"stored", "done"} => heap'[c] = heap[c]
    /\ heap'[cachedConfig] = heap[cachedConfig]
    /\ \A g \in Readers : heap'[reader[g].ref] = heap[reader[g].ref]

\* C13: a published document is never modified: every cycle fills maps of
\* its own and only the slot of the current document is replaced, so what a
\* reader obtained stays as it was through all later cycles.
C13_PublishedNeverModified ==
    /\ [][C13_NoWriteToPublished]_vars
    /\ [](\A g \in Readers : reader[g].seen = heap[reader[g].seenRef])
    /\ [](\A c \in Cycles : cyc[c].pc \in {"stored", "done"} =>
             heap[c] = OnlySucceeded(EmptyConfig, config, cyc[c].fetched))

\* a reader encoded the first cycle's document, and a later cycle has since
\* published a different one
C13_Witness ==
    /\ Len(cyc) = 2
    /\ cyc[2].pc = "done"
    /\ cachedConfig = 2
    /\ heap[1] # EmptyConfig
    /\ heap[2] # heap[1]
    /\ \E g \in Readers : reader[g].seenRef = 1 /\ reader[g].seen = heap[1]

\* the members of a list
Members(l) == {l[i] : i \in 1..Len(l)}

\* C14: ShouldIgnoreRouter is true exactly when the ignore list is not empty
\* and shares an entry with the route's entry points; it is false for an
\* empty ignore list and for a route without entry points.
C14_IgnoredIffListsMeet ==
    fnOut.done =>
        /\ fnOut.val <=>
              /\ fnIn.ignoreEntryPoints # <<>>
              /\ Members(fnIn.router.EntryPoints) \cap Members(fnIn.ignoreEntryPoints) # {}
        /\ fnIn.ignoreEntryPoints = <<>> => ~fnOut.val
        /\ fnIn.router.EntryPoints = <<>> => ~fnOut.val

\* a route ignored for its second entry point, which is the second entry of
\* the ignore list, its first entry point differing from it in case only
C14_Witness ==
    /\ fnOut.done
    /\ fnOut.val
    /\ fnIn.router.EntryPoints = <<"Web", "web">>
    /\ fnIn.ignoreEntryPoints = <<"traefik", "web">>

\* one of the entry points is in the source's ignore list
OnIgnoreList(entryPoints, ds) ==
    Members(entryPoints) \cap Members(ds.IgnoreEntryPoints) # {}

\* C15: every router of a fetched passthrough document is merged under its
\* prefixed key whether or not one of its entry points is in the source's
\* ignore list (it is the prefixed copy unless a later source wrote the same
\* key), while a normal-mode route with such an entry point adds no key.
C15_PassthroughNotFiltered ==
    cachedConfig # 0 =>
        \A n \in 1..Len(config) :
            /\ PassthroughOK(cachedConfig, n) =>
                  \A k \in DOMAIN cyc[cachedConfig].fetched[n].config.Routers :
                      LET key == config[n].Name \o <<"-">> \o k
                      IN  /\ key \in DOMAIN Published.Routers
                          /\ \/ RouteKeyRewritten(cachedConfig, n, key)
                             \/ Published.Routers[key].EntryPoints
                                   = cyc[cachedConfig].fetched[n].config.Routers[k].EntryPoints
            /\ NormalOK(cachedConfig, n) =>
                  \A j \in 1..Len(cyc[cachedConfig].fetched[n].routers) :
                      LET router == cyc[cachedConfig].fetched[n].routers[j]
                          key == config[n].Name \o <<"-">> \o CutAtFirstAt(router.Name)
                      IN  (/\ OnIgnoreList(router.EntryPoints, config[n])
                           /\ key \in DOMAIN Published.Routers)
                              => \E m \in 1..Len(config) : key \in RouteKeysOf(cachedConfig, m)

\* a published document holding a passthrough router with an entry point of
\* its source's ignore list, next to a normal-mode source that lost a route
\* to its own ignore list
C15_Witness ==
    /\ cachedConfig # 0
    /\ Len(config) = 2
    /\ NormalOK(cachedConfig, 1)
    /\ \E j \in 1..Len(cyc[cachedConfig].fetched[1].routers) :
          /\ OnIgnoreList(cyc[cachedConfig].fetched[1].routers[j].EntryPoints, config[1])
          /\ config[1].Name \o <<"-">>
                \o CutAtFirstAt(cyc[cachedConfig].fetched[1].routers[j].Name)
                \notin DOMAIN Published.Routers
    /\ PassthroughOK(cachedConfig, 2)
    /\ \E k \in DOMAIN cyc[cachedConfig].fetched[2].config.Routers :
          /\ OnIgnoreList(cyc[cachedConfig].fetched[2].config.Routers[k].EntryPoints,
                          config[2])
          /\ OnIgnoreList(Published.Routers[config[2].Name \o <<"-">> \o k].EntryPoints,
                          config[2])

\* the scheme and the default port the boolean implies
ImpliedScheme == IF fnIn.useTLS THEN <<"h","t","t","p","s",":","/","/">>
                 ELSE <<"h","t","t","p",":","/","/">>
ImpliedPort == IF fnIn.useTLS THEN <<":","4","4","3">> ELSE <<":","8","0">>

\* C16: with no override the result is the implied scheme, then the host of
\* the API address, then the address's own port if it has one; the default
\* port is appended only to an address without a port (and to every host
\* that holds no colon); scheme and path of the address are dropped.
C16_HostPortOfAPIURL ==
    (fnOut.done /\ fnIn.ds.BackendOverride = <<>>) =>
        /\ fnIn.port # <<>> => fnOut.val = ImpliedScheme \o fnIn.host \o fnIn.port
        /\ fnIn.port = <<>> =>
              fnOut.val \in {ImpliedScheme \o fnIn.host,
                             ImpliedScheme \o fnIn.host \o ImpliedPort}
        /\ (fnIn.port = <<>> /\ \A i \in 1..Len(fnIn.host) : fnIn.host[i] # ":") =>
              fnOut.val = ImpliedScheme \o fnIn.host \o ImpliedPort

\* an https address with port 80 and a path, asked for with the boolean
\* true: the port is kept
C16_Witness ==
    /\ fnOut.done
    /\ fnIn.ds.BackendOverride = <<>>
    /\ fnIn.useTLS
    /\ fnIn.ds.APIURL = <<"h","t","t","p",":","/","/","h",":","8","0","/","a",":","b","/","c">>
    /\ fnOut.val = <<"h","t","t","p","s",":","/","/","h",":","8","0">>

\* C17: an override that begins with http:// or https:// is returned as it
\* is for both values of the boolean; any other override is returned with
\* the implied scheme before it and no port added; the API address plays no
\* part.
C17_OverrideWins ==
    (fnOut.done /\ fnIn.ds.BackendOverride # <<>>) =>
        fnOut.val = IF fnIn.oScheme # <<>>
                    THEN fnIn.oScheme \o fnIn.oHost
                    ELSE ImpliedScheme \o fnIn.oHost

\* an https override asked for with the boolean false
C17_Witness ==
    /\ fnOut.done
    /\ ~fnIn.useTLS
    /\ fnIn.ds.BackendOverride = <<"h","t","t","p","s",":","/","/","b">>
    /\ fnIn.ds.APIURL = <<"h","t","t","p",":","/","/","h",":","9">>
    /\ fnOut.val = fnIn.ds.BackendOverride

\* the domains of the matchers of one kind that stand for one, in text order
RECURSIVE DomainsOfKind(_, _)
DomainsOfKind(ms, kind) ==
    IF ms = <<>> THEN <<>>
    ELSE (IF ms[1].kind = kind /\ ms[1].domain # <<>> THEN <<ms[1].domain>> ELSE <<>>)
         \o DomainsOfKind(Tail(ms), kind)

\* C18: the result is the values of the literal-host matchers in text order,
\* followed, when the wildcard flag is set, by the wildcards of the
\* regex-host matchers that convert, in text order; a regex that does not
\* convert is skipped, and with the flag unset the regex-host matchers give
\* nothing.
C18_HostsThenWildcards ==
    fnOut.done =>
        fnOut.val = DomainsOfKind(fnIn.matchers, "Host")
                    \o (IF fnIn.wildcardFix
                        THEN DomainsOfKind(fnIn.matchers, "HostRegexp")
                        ELSE <<>>)

\* a regex that does not convert, then one that does, then a literal host:
\* the host comes first in the result, the wildcard second
C18_Witness ==
    /\ fnOut.done
    /\ fnIn.wildcardFix
    /\ Len(fnIn.matchers) = 3
    /\ fnIn.matchers[1].kind = "HostRegexp" /\ fnIn.matchers[1].domain = <<>>
    /\ fnIn.matchers[2].kind = "HostRegexp"
    /\ fnIn.matchers[3].kind = "Host"
    /\ fnOut.val = << <<"x",".","y">>, <<"*",".","z">> >>

\* the five prefixes, as the claim fixes them
FivePrefixes ==
    {<<"^","[","a","-","z","A","-","Z","0","-","9","-","]","+","\\",".">>,
     <<"^","[","a","-","z","A","-","Z","0","-","9","_","-","]","+","\\",".">>,
     <<"^","[","^",".","]","+","\\",".">>,
     <<"^",".","+","\\",".">>,
     <<"^",".","*","\\",".">>}

\* C19: the result is empty exactly when the pattern starts with none of the
\* five prefixes; otherwise it is "*." followed by the rest of the pattern
\* with one trailing "$" removed and every \. turned into a dot.
C19_WildcardOfPattern ==
    fnOut.done =>
        /\ fnOut.val = <<>> <=> fnIn.head \notin FivePrefixes
        /\ fnIn.head \in FivePrefixes =>
              fnOut.val = <<"*", ".">> \o fnIn.body.plain
                          \o (IF fnIn.tail = <<>> THEN <<>> ELSE Tail(fnIn.tail))

\* the third prefix before a body with two escaped dots and two "$" at the
\* end: one "$" stays
C19_Witness ==
    /\ fnOut.done
    /\ fnIn.pattern = <<"^","[","^",".","]","+","\\",".","a","\\",".","b","\\",".","c","$","$">>
    /\ fnOut.val = <<"*",".","a",".","b",".","c","$">>

\* the domains each rule of SpecTLS names: the literal hosts, then, with the
\* wildcard flag, the wildcard of the regex host
DomainsNamed ==
    LET wild == IF fnIn.ds.WildcardFix THEN << <<"*",".","z">> >> ELSE <<>>
    IN  IF fnIn.rule = ruleHost THEN << <<"x",".","y">> >>
        ELSE IF fnIn.rule = ruleMixed THEN << <<"w">> >> \o wild
        ELSE IF fnIn.rule = ruleBoth THEN << <<"x",".","y">>, <<"w">> >> \o wild
        ELSE <<>>

\* C20: the result has the domains key exactly when the rule names a domain,
\* and then holds one descriptor with the first domain as main and the
\* others, in order, as alternate names; without a domain there is no
\* domains key, whatever the fetched TLS options held.
C20_DomainsFromRuleOnly ==
    fnOut.done =>
        /\ "domains" \in DOMAIN fnOut.val <=> DomainsNamed # <<>>
        /\ DomainsNamed # <<>> =>
              fnOut.val["domains"]
                 = << [Main |-> DomainsNamed[1],
                       Sans |-> SubSeq(DomainsNamed, 2, Len(DomainsNamed))] >>

\* three domains from one rule replace the domain of the fetched options
C20_Witness ==
    /\ fnOut.done
    /\ fnIn.rule = ruleBoth
    /\ fnIn.ds.WildcardFix
    /\ "domains" \in DOMAIN fnIn.existingTLS
    /\ fnOut.val["domains"] = << [Main |-> <<"x",".","y">>,
                                  Sans |-> << <<"w">>, <<"*",".","z">> >>] >>

\* the policy names a certificate resolver
PolicyNamesResolver == fnIn.ds.TLS.nonNil /\ fnIn.ds.TLS.CertResolver # ""

RouteStands(c, n, j) ==
    LET routers == cyc[c].fetched[n].routers
        base == CutAtFirstAt(routers[j].Name)
        key == config[n].Name \o <<"-">> \o base
    IN  /\ NormalOK(c, n)
        /\ ~OnIgnoreList(routers[j].EntryPoints, config[n])
        /\ \A l \in (j + 1)..Len(routers) :
              ~OnIgnoreList(routers[l].EntryPoints, config[n])
                 => CutAtFirstAt(routers[l].Name) # base
        /\ ~RouteKeyRewritten(c, n, key)
        /\ ~ServiceKeyRewritten(c, n, <<"s","e","r","v","i","c","e","-">> \o key)

\* the published route and backend group of route j of source n
RouteOf(n, j) ==
    Published.Routers[config[n].Name \o <<"-">>
                      \o CutAtFirstAt(cyc[cachedConfig].fetched[n].routers[j].Name)]
GroupOf(n, j) ==
    Published.Services[<<"s","e","r","v","i","c","e","-">> \o config[n].Name \o <<"-">>
                       \o CutAtFirstAt(cyc[cachedConfig].fetched[n].routers[j].Name)]

\* the routes of the published document that stand
StandingRoutes ==
    IF cachedConfig = 0 THEN {}
    ELSE {<<n, j>> \in (1..Len(config)) \X (1..3) :
             /\ ~cyc[cachedConfig].fetched[n].err
             /\ j <= Len(cyc[cachedConfig].fetched[n].routers)
             /\ RouteStands(cachedConfig, n, j)}

StartsWith(s, p) == Len(p) <= Len(s) /\ \A i \in 1..Len(p) : s[i] = p[i]

\* C22: unless the backend override carries a scheme, the address of a
\* route's backend group begins with https:// exactly when the fetched route
\* had TLS options, and with http:// otherwise, whether or not the source
\* has a TLS policy.
C22_SchemeFromFetchedTLS ==
    \A r \in StandingRoutes :
        LET ds == config[r[1]]
            router == cyc[cachedConfig].fetched[r[1]].routers[r[2]]
            url == GroupOf(r[1], r[2]).Servers[1].URL
        IN  ~(\/ StartsWith(ds.BackendOverride, <<"h","t","t","p",":","/","/">>)
              \/ StartsWith(ds.BackendOverride, <<"h","t","t","p","s",":","/","/">>))
              => /\ StartsWith(url, <<"h","t","t","p","s",":","/","/">>)
                     <=> DOMAIN router.TLS # {}
                 /\ StartsWith(url, <<"h","t","t","p",":","/","/">>)
                     <=> DOMAIN router.TLS = {}

\* a source with a TLS policy and no override: its route without TLS options
\* goes to http://, its route with TLS options to https://
C22_Witness ==
    /\ cachedConfig # 0
    /\ config[1].TLS.nonNil /\ config[1].BackendOverride = <<>>
    /\ <<1, 1>> \in StandingRoutes /\ <<1, 2>> \in StandingRoutes
    /\ DOMAIN cyc[cachedConfig].fetched[1].routers[1].TLS = {}
    /\ DOMAIN cyc[cachedConfig].fetched[1].routers[2].TLS # {}
    /\ GroupOf(1, 1).Servers[1].URL = <<"h","t","t","p",":","/","/","h",":","8","0">>
    /\ GroupOf(1, 2).Servers[1].URL = <<"h","t","t","p","s",":","/","/","h",":","4","4","3">>

\* what BuildTLSConfig has to put in the map for a route: a fetched option
\* other than domains, a resolver named by the policy, or a domain of the rule
BuiltMapNonEmpty(ds, router) ==
    \/ (DOMAIN router.TLS) \ {"domains"} # {}
    \/ ds.TLS.nonNil /\ ds.TLS.CertResolver # ""
    \/ router.Rule \in {ruleHost, ruleMixed, ruleBoth}

\* C23: a published normal-mode route has a TLS block only if its source has
\* a TLS policy or the fetched route had TLS options, and only if the map
\* built for it is not empty; without policy and without fetched TLS options
\* there is no TLS block, whatever the rule.
C23_TLSBlockOnlyWhenAskedAndNonEmpty ==
    \A r \in StandingRoutes :
        LET ds == config[r[1]]
            router == cyc[cachedConfig].fetched[r[1]].routers[r[2]]
            hasBlock == DOMAIN RouteOf(r[1], r[2]).TLS # {}
        IN  /\ hasBlock => ds.TLS.nonNil \/ DOMAIN router.TLS # {}
            /\ hasBlock => BuiltMapNonEmpty(ds, router)
            /\ ~ds.TLS.nonNil /\ DOMAIN router.TLS = {} => ~hasBlock

\* a source without policy: its route with a host rule and no fetched TLS
\* options has no TLS block, its route with TLS options has one
C23_Witness ==
    /\ cachedConfig # 0
    /\ ~config[1].TLS.nonNil
    /\ <<1, 1>> \in StandingRoutes /\ <<1, 2>> \in StandingRoutes
    /\ cyc[cachedConfig].fetched[1].routers[1].Rule = ruleHost
    /\ DOMAIN cyc[cachedConfig].fetched[1].routers[1].TLS = {}
    /\ DOMAIN RouteOf(1, 1).TLS = {}
    /\ "domains" \in DOMAIN RouteOf(1, 2).TLS

\* C24: a published normal-mode route has the fetched rule, the entry points
\* of the source's override when there is one and the fetched ones
\* otherwise, and the middleware list of the source as configured.
C24_RuleEntryPointsMiddlewares ==
    \A r \in StandingRoutes :
        LET ds == config[r[1]]
            router == cyc[cachedConfig].fetched[r[1]].routers[r[2]]
            out == RouteOf(r[1], r[2])
        IN  /\ out.Rule = router.Rule
            /\ ds.EntryPoints # <<>> => out.EntryPoints = ds.EntryPoints
            /\ ds.EntryPoints = <<>> => out.EntryPoints = router.EntryPoints
            /\ out.Middlewares = ds.Middlewares
            /\ \A q \in StandingRoutes :
                  q[1] = r[1] => RouteOf(q[1], q[2]).Middlewares = out.Middlewares

\* two routes of a source with an override and two middlewares: both have
\* the override and the two references, with the provider suffix kept
C24_Witness ==
    /\ cachedConfig # 0
    /\ config[1].EntryPoints = <<"websecure">>
    /\ <<1, 1>> \in StandingRoutes /\ <<1, 2>> \in StandingRoutes
    /\ cyc[cachedConfig].fetched[1].routers[1].EntryPoints = <<"web">>
    /\ RouteOf(1, 1).EntryPoints = <<"websecure">>
    /\ RouteOf(1, 1).Rule = ruleHost
    /\ RouteOf(1, 2).Middlewares = << <<"a","u","t","h","@","f">>, <<"g","z">> >>

\* the fetched entry points are kept when the source has no override
C24_WitnessOwn ==
    /\ cachedConfig # 0
    /\ config[1].EntryPoints = <<>>
    /\ <<1, 2>> \in StandingRoutes
    /\ RouteOf(1, 2).EntryPoints = <<"web", "websecure">>

\* C25: the backend group of a published normal-mode route has one server,
\* its address is GetBackendURL of the source and of whether the fetched
\* route had TLS options, and its transport reference is the source's, which
\* is empty when none is configured.
C25_OneServerAndTransport ==
    \A r \in StandingRoutes :
        LET ds == config[r[1]]
            router == cyc[cachedConfig].fetched[r[1]].routers[r[2]]
            out == GroupOf(r[1], r[2])
        IN  /\ Len(out.Servers) = 1
            /\ out.Servers[1].URL = GetBackendURL(ds, router.TLS # NilMap)
            /\ out.ServersTransport = ds.ServerTransport

\* a source with a transport reference and a port-only override: the group
\* of its TLS route has the one https address and the reference
C25_Witness ==
    /\ cachedConfig # 0
    /\ config[1].ServerTransport = "insecure"
    /\ config[1].BackendOverride = <<"b",":","9">>
    /\ <<1, 2>> \in StandingRoutes
    /\ GroupOf(1, 2).Servers = << [URL |-> <<"h","t","t","p","s",":","/","/","b",":","9">>] >>
    /\ GroupOf(1, 2).ServersTransport = "insecure"

\* the sources of cycle c whose fetch succeeded
Succeeded(c) == {n \in 1..Len(config) : ~cyc[c].fetched[n].err}

\* C26: the store of a cycle makes that cycle's document the current one,
\* and the current document holds nothing but what the sources that
\* succeeded in its own cycle wrote: no entry of an earlier document stays,
\* and when every source failed the document has no routes, no backend
\* groups and no middlewares.
C26_WholeDocumentReplaced ==
    /\ [][\A c \in Cycles :
            (cyc[c].pc = "locked" /\ cyc'[c].pc = "stored") => cachedConfig' = c]_vars
    /\ [](cachedConfig # 0 =>
            /\ \A k \in DOMAIN Published.Routers :
                  \E n \in Succeeded(cachedConfig) : k \in RouteKeysOf(cachedConfig, n)
            /\ \A k \in DOMAIN Published.Services :
                  \E n \in Succeeded(cachedConfig) : k \in ServiceKeysOf(cachedConfig, n)
            /\ \A k \in DOMAIN Published.Middlewares :
                  \E n \in Succeeded(cachedConfig) : k \in MiddlewareKeysOf(cachedConfig, n)
            /\ Succeeded(cachedConfig) = {} => Published = EmptyConfig)

\* the first cycle published routes, backend groups and middlewares; in the
\* second every source failed, and the current document is empty
C26_Witness ==
    /\ cachedConfig = 2
    /\ cyc[1].pc = "done" /\ cyc[2].pc = "done"
    /\ Succeeded(1) = {1, 2}
    /\ DOMAIN heap[1].Routers # {} /\ DOMAIN heap[1].Services # {}
    /\ DOMAIN heap[1].Middlewares # {}
    /\ Succeeded(2) = {}
    /\ Published = EmptyConfig

\* the greatest member of a non-empty set of numbers
Last(S) == CHOOSE x \in S : \A y \in S : y <= x

\* the fetched routes of normal-mode source n of cycle c that are kept and
\* get route key k
RoutesForKey(c, n, k) ==
    {j \in 1..Len(cyc[c].fetched[n].routers) :
        /\ ~OnIgnoreList(cyc[c].fetched[n].routers[j].EntryPoints, config[n])
        /\ config[n].Name \o <<"-">> \o CutAtFirstAt(cyc[c].fetched[n].routers[j].Name) = k}

\* what source n of cycle c, processed alone, leaves under key k: for a
\* normal-mode source the entry made for the last route of the fetched list
\* that gets the key
RouteEntry(c, n, k) ==
    LET ds == config[n]
        res == cyc[c].fetched[n]
    IN  IF ds.Passthrough
        THEN PrefixRouter(ds, res.config.Routers[
                 CHOOSE r \in DOMAIN res.config.Routers : ds.Name \o <<"-">> \o r = k])
        ELSE AddRouter(EmptyConfig, ds, res.routers[Last(RoutesForKey(c, n, k))]).Routers[k]

ServiceEntry(c, n, k) ==
    LET ds == config[n]
        res == cyc[c].fetched[n]
        rk == SubSeq(k, 9, Len(k))
    IN  IF ds.Passthrough
        THEN res.config.Services[
                 CHOOSE r \in DOMAIN res.config.Services : ds.Name \o <<"-">> \o r = k]
        ELSE AddRouter(EmptyConfig, ds, res.routers[Last(RoutesForKey(c, n, rk))]).Services[k]

MiddlewareEntry(c, n, k) ==
    cyc[c].fetched[n].config.Middlewares[
        CHOOSE r \in DOMAIN cyc[c].fetched[n].config.Middlewares :
            config[n].Name \o <<"-">> \o r = k]

\* C27: under each key of each mapping the published document holds the
\* entry of the last source, in declaration order, that wrote the key, and
\* for a normal-mode source the entry of the last route of the fetched list
\* that got the key; the entries written earlier under the key are gone and
\* the cycle has completed all the same.
C27_LaterEntryWins ==
    cachedConfig # 0 =>
        LET c == cachedConfig
        IN  /\ \A k \in DOMAIN Published.Routers :
                  Published.Routers[k]
                     = RouteEntry(c, Last({n \in Succeeded(c) : k \in RouteKeysOf(c, n)}), k)
            /\ \A k \in DOMAIN Published.Services :
                  Published.Services[k]
                     = ServiceEntry(c, Last({n \in Succeeded(c) : k \in ServiceKeysOf(c, n)}), k)
            /\ \A k \in DOMAIN Published.Middlewares :
                  Published.Middlewares[k]
                     = MiddlewareEntry(c, Last({n \in Succeeded(c) :
                                                  k \in MiddlewareKeysOf(c, n)}), k)
            /\ \A n \in Succeeded(c) :
                  /\ RouteKeysOf(c, n) \subseteq DOMAIN Published.Routers
                  /\ ServiceKeysOf(c, n) \subseteq DOMAIN Published.Services
                  /\ MiddlewareKeysOf(c, n) \subseteq DOMAIN Published.Middlewares

\* the passthrough source a writes route key a-r from its key r; the
\* normal-mode source a, declared after it, writes a-r for its route r@k
\* and again for its route r@d: the published entry is that of r@d, and the
\* call has returned
C27_Witness ==
    /\ cachedConfig # 0
    /\ cyc[cachedConfig].pc = "done"
    /\ config = <<srcPA, srcA>>
    /\ cyc[cachedConfig].fetched[1].config = docFull
    /\ cyc[cachedConfig].fetched[2].routers = routersDup
    /\ Published.Routers[<<"a","-","r">>].Rule = rulePath
    /\ Published.Routers[<<"a","-","r">>].EntryPoints = <<"web", "websecure">>
    /\ Published.Routers[<<"a","-","r">>].Service = <<"s","e","r","v","i","c","e","-","a","-","r">>
    /\ Published.Services[<<"s","e","r","v","i","c","e","-","a","-","r">>]
          .Servers[1].URL = <<"h","t","t","p","s",":","/","/","h",":","4","4","3">>

\* the requests of a cycle go out one source after the other, from the first
\* to the last: a request for source i goes out when the results of the
\* sources before it, and no other, are in, and its answer, a result or an
\* error, moves the cycle on to source i + 1
C28_OnceInOrder ==
    \A c \in Cycles :
        /\ (cyc[c].pc = "loop" /\ cyc'[c].pc = "fetching") =>
              /\ cyc[c].i = Len(cyc[c].fetched) + 1
              /\ cyc'[c].i = cyc[c].i
        /\ (cyc[c].pc = "fetching" /\ cyc'[c].pc # "fetching") =>
              /\ cyc'[c].pc = "loop"
              /\ cyc'[c].i = cyc[c].i + 1
              /\ Len(cyc'[c].fetched) = cyc[c].i
        /\ cyc[c].pc # "fetching" => cyc'[c].fetched = cyc[c].fetched
        /\ cyc[c].pc \in {"locked", "stored", "done"} => cyc'[c].i = cyc[c].i

\* the current document changes only by the store of a cycle that has all
\* its results in, and a cycle stores once
C28_PublishesOnce ==
    /\ cachedConfig' # cachedConfig =>
          /\ cachedConfig' \in Cycles
          /\ cyc[cachedConfig'].pc = "locked"
          /\ cyc'[cachedConfig'].pc = "stored"
          /\ Len(cyc[cachedConfig'].fetched) = Len(config)
    /\ \A c \in Cycles :
          cyc[c].pc \in {"stored", "done"} => cyc'[c].pc \in {"stored", "done"}

\* C28: with every fetch returning, every cycle that has started comes to
\* publish its document and to return; it publishes once, after one request
\* to each source in declaration order, an error moving it on to the next
\* source as a result does.
C28_EveryCyclePublishesOnce ==
    /\ [][C28_OnceInOrder]_vars
    /\ [][C28_PublishesOnce]_vars
    /\ \A n \in 1..MaxCycles :
          (Len(cyc) >= n)
             ~> (Len(cyc) >= n /\ cyc[n].pc = "done"
                 /\ Len(cyc[n].fetched) = Len(config))

\* the second cycle has published after its first source failed and its
\* second answered
C28_Witness ==
    /\ Len(cyc) = 2
    /\ cyc[1].pc = "done"
    /\ cyc[2].pc = "stored"
    /\ cachedConfig = 2
    /\ cyc[2].fetched[1].err /\ ~cyc[2].fetched[2].err
    /\ Published # EmptyConfig

\* the keys of map m give as many prefixed keys under source name n
DistinctWhenPrefixed(n, m) ==
    Cardinality({n \o <<"-">> \o k : k \in DOMAIN m}) = Cardinality(DOMAIN m)

\* C29: two cycles that got the same results from the sources built the same
\* document; the keys of each map of a fetched passthrough document stay
\* distinct when prefixed, and merging the document gives the same entries
\* in whatever order the keys of its three maps are visited.
C29_OrderOfKeysIsImmaterial ==
    /\ \A c, d \in Cycles :
          (BuildComplete(c) /\ BuildComplete(d) /\ cyc[c].fetched = cyc[d].fetched)
             => heap[c] = heap[d]
    /\ \A c \in Cycles : \A n \in 1..Len(cyc[c].fetched) :
          PassthroughOK(c, n) =>
             LET doc == cyc[c].fetched[n].config
             IN  /\ DistinctWhenPrefixed(config[n].Name, doc.Routers)
                 /\ DistinctWhenPrefixed(config[n].Name, doc.Services)
                 /\ DistinctWhenPrefixed(config[n].Name, doc.Middlewares)
                 /\ \A mo \in KeyOrders(doc.Middlewares), ro \in KeyOrders(doc.Routers),
                       so \in KeyOrders(doc.Services) :
                       MergePassthrough(EmptyConfig, config[n], doc, mo, ro, so)
                          = MergePassthrough(EmptyConfig, config[n], doc,
                                             SomeOrder(doc.Middlewares),
                                             SomeOrder(doc.Routers),
                                             SomeOrder(doc.Services))

\* two cycles merged the same passthrough document, whose backend groups
\* can be visited in two orders, and got the same results from the other
\* source: their documents are the same
C29_Witness ==
    /\ Len(cyc) = 2
    /\ cyc[1].pc = "done" /\ cyc[2].pc = "done"
    /\ cyc[1].fetched = cyc[2].fetched
    /\ \E n \in 1..Len(config) :
          /\ PassthroughOK(1, n)
          /\ Cardinality(KeyOrders(cyc[1].fetched[n].config.Services)) >= 2
    /\ \E n \in 1..Len(config) : NormalOK(1, n)
    /\ heap[1] = heap[2]
    /\ Cardinality(DOMAIN heap[2].Services) = 3

\* C30 (as claimed): of two cycles that have both completed, the one that
\* started later is the one whose document is current.
C30_LaterStartIsCurrent ==
    \A A, B \in Cycles :
        (A > B /\ cyc[A].pc = "done" /\ cyc[B].pc = "done") => cachedConfig = A

\* cycle A stores in this step
Stores(A) == cyc[A].pc = "locked" /\ cyc'[A].pc = "stored"

\* C30 (amended): the store of a cycle makes its document the current one,
\* whichever cycles have stored before it and whenever they started, and the
\* current document changes at no other step: of two completed cycles the
\* one that stored later has its document current, be it the one that
\* started first.
C30_LaterStoreIsCurrent ==
    /\ [][\A A \in Cycles : Stores(A) => cachedConfig' = A]_vars
    /\ [][cachedConfig' # cachedConfig => \E A \in Cycles : Stores(A)]_vars
    /\ [](cachedConfig # 0 => cyc[cachedConfig].pc \in {"stored", "done"})

\* two concurrent calls: the one that started first stored last, and its
\* document, which differs from the other's, is current after both returned
C30_Witness ==
    /\ Len(cyc) = 2
    /\ cyc[1].pc = "done" /\ cyc[2].pc = "done"
    /\ \A w \in Callers : caller[w].pc = "idle"
    /\ cachedConfig = 1
    /\ heap[1] # heap[2]

====
